---- MODULE Spec2Model ----
(***************************************************************************)
(* A state-machine model of libraries/AC_WPNav/AC_WPNav.cpp (loiter,       *)
(* straight-segment and spline-segment navigation).                        *)
(*                                                                         *)
(* Numbers.  Every C++ float is a fixed-point integer counting 1/FP of its *)
(* unit (cm, cm/s, cm/s/s, s, or dimensionless); every multiplication,     *)
(* division and square root rounds to the nearest 1/FP, as a float         *)
(* operation rounds to the nearest representable value.  Division by zero  *)
(* keeps its IEEE-754 outcome (an infinity or a NaN) wherever the code can *)
(* reach one.  The millisecond clock is a plain integer.                   *)
(*                                                                         *)
(* Collaborators.  The inertial navigation (position, velocity), the AHRS  *)
(* (yaw) and the position controller's own computations (leash lengths,    *)
(* kP, stopping point) are inputs: each call draws them from small sets.   *)
(* The position controller's setters are modelled by the pc_* variables.   *)
(* _yaw (atan2f of the heading) is written by the code and read by no      *)
(* navigation decision; it is not modelled.                                *)
(***************************************************************************)
EXTENDS Integers, Sequences, FiniteSets, TLC

\* resolution of the fixed-point representation of a float: two decimals
FP == 100

----------------------------------------------------------------------------
(* Float arithmetic on fixed-point values *)

Abs(a) == IF a < 0 THEN -a ELSE a

Sgn(a) == IF a < 0 THEN -1 ELSE IF a > 0 THEN 1 ELSE 0

\* AP_Math min / max macros
Min(a, b) == IF a < b THEN a ELSE b

Max(a, b) == IF a > b THEN a ELSE b

\* a float literal or an integer-valued parameter, e.g. F(500) is 500.0f
F(n) == n * FP

\* a * b, rounded to nearest (split so that no intermediate exceeds 32 bits)
Mul(a, b) ==
    LET A == Abs(a)
        B == Abs(b)
    IN  Sgn(a) * Sgn(b) * ((A \div FP) * B + (((A % FP) * B + FP \div 2) \div FP))

\* a / b for b # 0, rounded to nearest
Div(a, b) ==
    LET A == Abs(a)
        B == Abs(b)
    IN  Sgn(a) * Sgn(b) * ((A \div B) * FP + (((A % B) * FP + B \div 2) \div B))

\* Newton's iteration down from x >= sqrt(n), x > 0: the largest r with
\* r*r <= n
RECURSIVE ISqrtIn(_, _)
ISqrtIn(n, x) ==
    LET y == (x + n \div x) \div 2
    IN  IF y >= x THEN x ELSE ISqrtIn(n, y)

\* a starting point of the iteration: above sqrt(n), within a factor of 4
ISqrtStart(n) ==
    IF n < 1000000
    THEN IF n < 1000
         THEN IF n < 10 THEN 4 ELSE IF n < 100 THEN 10 ELSE 32
         ELSE IF n < 10000 THEN 100 ELSE IF n < 100000 THEN 317 ELSE 1000
    ELSE IF n < 100000000
         THEN IF n < 10000000 THEN 3163 ELSE 10000
         ELSE IF n < 1000000000 THEN 31623 ELSE 46341

\* integer square root, rounded to nearest
ISqrt(n) ==
    IF n = 0 THEN 0
    ELSE LET r == ISqrtIn(n, ISqrtStart(n))
         IN  IF n - r * r > r THEN r + 1 ELSE r

\* sqrtf(a) for a >= 0, rounded to nearest; above 200000.00 the root of the
\* integer part is refined by one Newton step (a * FP would leave 32 bits)
SqrtF(a) ==
    IF a <= 20000000 THEN ISqrt(a * FP)
    ELSE LET s == ISqrt(a)
             e == 5 * (a - s * s)
         IN  10 * s + Sgn(e) * ((Abs(e) + s \div 2) \div s)

\* AP_Math safe_sqrt: sqrtf, with 0 for a NaN result (a negative argument)
safe_sqrt(a) == IF a < 0 THEN 0 ELSE SqrtF(a)

\* AP_Math constrain_float(amt, low, high)
constrain_float(amt, low, high) ==
    IF amt < low THEN low ELSE IF amt > high THEN high ELSE amt

\* AP_Math pythagorous2(a, b) = sqrtf(a*a + b*b)
pythagorous2(a, b) == SqrtF(Mul(a, a) + Mul(b, b))

----------------------------------------------------------------------------
(* Vector3f / Vector2f *)

Vec(x, y, z) == <<x, y, z>>

VZero == <<0, 0, 0>>

VAdd(a, b) == <<a[1] + b[1], a[2] + b[2], a[3] + b[3]>>

VSub(a, b) == <<a[1] - b[1], a[2] - b[2], a[3] - b[3]>>

\* Vector3f::operator*(float)
VScale(a, k) == <<Mul(a[1], k), Mul(a[2], k), Mul(a[3], k)>>

\* Vector3f::operator/(float)
VDivF(a, k) == <<Div(a[1], k), Div(a[2], k), Div(a[3], k)>>

\* multiplication by a small integer-valued literal (2.0f, 3.0f): exact
VTimes(a, n) == <<a[1] * n, a[2] * n, a[3] * n>>

VNeg(a) == <<-a[1], -a[2], -a[3]>>

\* Vector3f::length()
VLength(a) == SqrtF(Mul(a[1], a[1]) + Mul(a[2], a[2]) + Mul(a[3], a[3]))

\* a.x*b.x + a.y*b.y + a.z*b.z
Dot(a, b) == Mul(a[1], b[1]) + Mul(a[2], b[2]) + Mul(a[3], b[3])

\* a position or velocity given in whole cm or cm/s
P(x, y, z) == <<F(x), F(y), F(z)>>

----------------------------------------------------------------------------
(* Parameter defaults and tuning constants of AC_WPNav.h *)

WPNAV_ACCELERATION == 100

WPNAV_WP_SPEED == 500

WPNAV_WP_SPEED_MIN == 100

WPNAV_WP_RADIUS == 200

WPNAV_WP_SPEED_UP == 250

WPNAV_WP_SPEED_DOWN == 150

WPNAV_ALT_HOLD_ACCEL_MAX == 250

WPNAV_LEASH_LENGTH_MIN == 100

WPNAV_LOITER_SPEED == 500

WPNAV_LOITER_SPEED_MIN == 100

WPNAV_LOITER_ACCEL == 250

WPNAV_LOITER_ACCEL_MIN == 25

\* (an update period of 0.2 s)
WPNAV_WP_UPDATE_TIME_DOUBLE == FP \div 5

\* WPNAV_WP_UPDATE_TIME 0.1f and WPNAV_LOITER_UPDATE_TIME 0.01f, in 1/FP s
WPNAV_WP_UPDATE_TIME == FP \div 10

WPNAV_LOITER_UPDATE_TIME == FP \div 100

\* the "controller is active" window of set_wp_destination, in ms
ACTIVE_MS == 1000

SEGMENT_STRAIGHT == "STRAIGHT"

SEGMENT_SPLINE == "SPLINE"

SEGMENT_END_STOP == "END_STOP"

SEGMENT_END_STRAIGHT == "END_STRAIGHT"

SEGMENT_END_SPLINE == "END_SPLINE"

----------------------------------------------------------------------------
(* Bounds of the exploration and the inputs the calls draw from *)

\* number of API calls in one behaviour
MaxCalls == 3

\* the clock stops at this many ms
MaxNow == 2000

\* update_spline advances the target while |_spline_time| is at most this;
\* beyond it the cubic leaves the range of the arithmetic
MaxSplineTime == 2

\* waypoints, cm from home
PtA == P(0, 0, 0)

PtB == P(30, 40, 0)

PtC == P(0, 0, 30)

PtE == P(30, 0, 40)

PtFar == P(-2000, 1500, -900)

\* spline waypoints: PtD is 10 cm from home, PtN 20 cm beyond it
PtD == P(6, 8, 0)

PtN == P(18, 24, 0)

\* inertial velocity samples: at rest, fast towards PtB, fast away from PtB,
\* fast climb
VRest == P(0, 0, 0)

VToB == P(300, 400, 0)

VFromB == P(-300, -400, 0)

VClimb == P(0, 0, 400)

\* (origin, destination, inertial velocity) of set_wp_origin_and_destination:
\* level at rest, with and against the velocity; zero-length; pure climb
\* while climbing; pure descent; climbing diagonal
Launches ==
    { <<PtA, PtB, VRest>>, <<PtA, PtB, VToB>>, <<PtA, PtB, VFromB>>,
      <<PtA, PtA, VRest>>, <<PtA, PtC, VClimb>>, <<PtC, PtA, VRest>>,
      <<PtA, PtE, VRest>> }

\* (destination, inertial velocity) of set_wp_destination
Departures == { <<PtB, VRest>>, <<PtB, VToB>>, <<PtA, VRest>> }

\* (inertial position, inertial velocity) read by an update: at home at
\* rest, at PtB flying on, at PtC climbing, far off every track flying back
Samples == { <<PtA, VRest>>, <<PtB, VToB>>, <<PtC, VClimb>>, <<PtFar, VFromB>> }

\* the smaller choice of the same inputs where straight and spline segments
\* are flown together
NavLaunches == { <<PtA, PtB, VRest>>, <<PtA, PtA, VRest>> }

NavDepartures == { <<PtB, VRest>> }

NavSamples == { <<PtB, VRest>>, <<PtFar, VFromB>> }

\* (origin, destination, stopped_at_start, seg_end_type, next_destination) of
\* set_spline_origin_and_destination: a short first leg of a spline towards a
\* far and towards a near next waypoint, a leg that ends the mission, a
\* zero-length leg
SplineLegs ==
    { <<PtA, PtD, TRUE, SEGMENT_END_SPLINE, PtB>>,
      <<PtA, PtD, TRUE, SEGMENT_END_SPLINE, PtN>>,
      <<PtA, PtD, TRUE, SEGMENT_END_STOP, PtD>>,
      <<PtA, PtA, TRUE, SEGMENT_END_STOP, PtA>> }

\* (destination, stopped_at_start, seg_end_type, next_destination) of
\* set_spline_destination: the legs that follow
SplineHops ==
    { <<PtB, FALSE, SEGMENT_END_STOP, PtB>>,
      <<PtN, FALSE, SEGMENT_END_STOP, PtN>>,
      <<PtN, FALSE, SEGMENT_END_STRAIGHT, PtB>> }

\* a waypoint 9.5 cm from PtA: the first tick of a leg that ends there
\* overshoots the end by a twentieth of the leg
PtShort == <<570, 760, 0>>

\* the legs of SplineLegs, and one that is left with a small overshoot
ChainLegs == SplineLegs \cup { <<PtA, PtShort, TRUE, SEGMENT_END_SPLINE, PtD>> }

\* a waypoint 10 m from PtA
PtRun == P(600, 800, 0)

\* legs flown to the end: 10 m and 10 cm with each end type, and zero-length
\* legs that end in a stop and in a spline
RunLegs ==
    { <<PtA, PtRun, TRUE, SEGMENT_END_STOP, PtRun>>,
      <<PtA, PtRun, TRUE, SEGMENT_END_STRAIGHT, PtFar>>,
      <<PtA, PtRun, TRUE, SEGMENT_END_SPLINE, PtFar>>,
      <<PtA, PtD, TRUE, SEGMENT_END_STOP, PtD>>,
      <<PtA, PtD, TRUE, SEGMENT_END_SPLINE, PtN>>,
      <<PtA, PtA, TRUE, SEGMENT_END_SPLINE, PtD>>,
      <<PtA, PtA, TRUE, SEGMENT_END_STOP, PtA>> }

\* the time between two ticks of update_spline, in ms: WP_UPDATE_TIME and more
RunPeriods == {100, 200}

\* the inertial position while update_spline runs
SplinePositions == {PtD, PtFar}

\* loiter: inertial velocity at init_loiter_target, arguments of
\* set_loiter_velocity, (control_roll, control_pitch) in centi-degrees,
\* (cos_yaw, sin_yaw) of the AHRS
LoiterVelocities == {VRest, VToB, P(600, 800, 0)}

LoiterSpeedArgs == {F(200), F(50)}

Sticks == { <<0, 0>>, <<F(4500), 0>>, <<0, -F(4500)>> }

Yaws == { <<F(1), 0>>, <<0, F(1)>> }

\* the position controller's stopping point (get_stopping_point_xy / _z)
StoppingPoints == {P(10, 0, 0)}

\* ms that pass between two calls: one update period, a stale second
Elapsed == {100, 1000}

\* position controller: (leash_xy, leash_up_z, leash_down_z) as left by
\* calc_leash_length_xy / calc_leash_length_z, and the xy position gain kP
Leashes == {<<F(1300), F(400), F(300)>>}

KPs == {F(1), 0}

\* arguments of set_horizontal_velocity
SpeedArgs == {F(50), F(-500)}

\* loiter at rest: the period of the 100 Hz loop in ms, and the inertial
\* velocities init_loiter_target starts from
LoiterPeriodMs == 10

SettleVelocities == {P(3, -4, 0), P(-60, 0, 0), P(20, 50, 0), P(0, 1, 0)}

\* AP_Baro: defaults of DRIFT_TC and DRIFT_INIT (seconds)
BARO_DRIFT_TC == 180

BARO_DRIFT_INIT == 180

\* calibrate(): a read phase may last this long (ms)
CAL_TIMEOUT_MS == 500

\* calibrate(): the delay after a reading of the first phase (ms)
CAL_FIRST_DELAY_MS == 20

\* calibrate(): the delay after a settling or averaging pass (ms)
CAL_PASS_DELAY_MS == 100

\* calibrate(): passes that let the sensor settle
CAL_SETTLE_PASSES == 10

\* calibrate(): passes averaged into the ground values
CAL_AVERAGE_PASSES == 5

\* the innovation gate of the drift estimator (m)
DRIFT_GATE == 5

\* barometer calls made in one behaviour
MaxBaroCalls == 4

\* the clock of the barometer specifications stops here (ms)
MaxBaroNow == 16000

\* how long one read() of the driver takes (ms)
ReadMs == {250, 510}

\* what a read() leaves: <<healthy, pressure (Pa), temperature (deg C)>>
Readings ==
    { <<FALSE, 0, 0>>, <<TRUE, 0, F(20)>>, <<TRUE, F(1000), F(20)>> }

\* a sensor that answers every read() in time with a healthy reading
SteadyReadMs == 20

SteadyReadings == { <<TRUE, F(1000), F(20)>> }

\* stored ALT_OFFSET (m), an AP_Int8
StoredAltOffsets == {0, 3}

\* stored ABS_PRESS
StoredGroundPressures == {0, F(950)}

\* stored DRIFT_TC (s): negative disables the estimator
StoredDriftTcs == {F(-1), F(1)}

\* stored DRIFT_INIT (s)
StoredDriftInits == {0, 3}

\* what the storage of an unlisted float member can hold
StorageFloats == {0, F(7)}

\* what the storage of _drift_init_count can hold
StorageCounts == {0, 2}

\* altitudes the pressure formula yields (m)
BaroAltitudes == {0, F(8)}

\* external altitudes and periods handed to update_drift_estimate (m, s)
DriftSamples == { <<F(2), F(1)>>, <<F(-20), FP \div 5>>, <<F(6), F(1)>> }

\* time between two calls of the update functions (ms): within the loiter
\* and waypoint periods, one waypoint period, stale
TickElapsed == {50, 100, 1000}

\* time between two barometer calls (ms)
BaroElapsed == {1000, 4000}

\* stored WP_ACCEL at boot: the default, or an unset (zero) value
StoredAccels == {F(WPNAV_ACCELERATION), 0}

----------------------------------------------------------------------------
(* State *)

\* spline_link before any spline segment is set
NoLink ==
    [chained |-> FALSE, end_type |-> "none", prev_end_type |-> "none",
     prev_end_vel |-> VZero, prev_vel_scaling |-> F(1)]

VARIABLES
    now,                    \* hal.scheduler->millis()
    calls,                  \* API calls made so far
    op,                     \* the last API call ("idle": time passed)
    advanced,               \* whether that call ran an advance / loiter step
    tick_dt,                \* the dt it passed to the step
    curr_pos,               \* _inav->get_position() as last sampled by a call
    sampled_vel,            \* _inav->get_velocity() as init_loiter_target read it
    \* parameters
    wp_speed_cms, wp_accel_cms, loiter_speed_cms,
    \* loiter
    loiter_last_update, pilot_accel_fwd_cms, pilot_accel_rgt_cms, loiter_accel_cms,
    \* waypoint navigation
    wp_last_update,
    wp_ever_updated,        \* history: an update tick has run since construction
    origin_src,             \* history: where the last set_* call took its origin
    origin, destination, pos_delta_unit,
    track_length, track_desired, limited_speed_xy_cms,
    track_accel, track_speed, track_leash_length,
    track_finite,           \* FALSE: _pos_delta_unit, _track_length and the values
                            \* derived from them are NaN (built on a NaN origin)
    track_desired_finite,   \* FALSE: _track_desired is NaN
    reached_destination, fast_waypoint, segment_type,
    \* spline
    spline_time,
    spline_time_kind,       \* "fin", or the IEEE value "nan", "pinf", "ninf"
    spline_vel_scaler, spline_slow_down_dist,
    spline_origin_vel, spline_destination_vel, hermite_spline_solution,
    spline_vel_scaling,     \* history: vel_scaling of the overshoot guard, F(1) if none
    spline_link,            \* history: how the segment was joined to the one before
    \* position controller
    pc_pos_target,
    pc_pos_target_finite,   \* FALSE: the target holds NaN components
    pc_desired_vel, pc_speed_xy, pc_accel_xy, pc_speed_z,
    pc_leash, pc_kP, pc_last_call

clockVars == <<now, calls, op, advanced, tick_dt, curr_pos, sampled_vel>>

paramVars == <<wp_speed_cms, wp_accel_cms, loiter_speed_cms>>

loiterVars ==
    <<loiter_last_update, pilot_accel_fwd_cms, pilot_accel_rgt_cms, loiter_accel_cms>>

trackVars ==
    <<origin, destination, pos_delta_unit, track_length, track_desired,
      limited_speed_xy_cms, track_accel, track_speed, track_leash_length,
      track_finite, track_desired_finite>>

flagVars == <<reached_destination, fast_waypoint, segment_type>>

splineVars ==
    <<spline_time, spline_time_kind, spline_vel_scaler, spline_slow_down_dist,
      spline_origin_vel, spline_destination_vel, hermite_spline_solution,
      spline_vel_scaling, spline_link>>

wpVars == <<wp_last_update, wp_ever_updated, origin_src>>

pcVars ==
    <<pc_pos_target, pc_pos_target_finite, pc_desired_vel, pc_speed_xy,
      pc_accel_xy, pc_speed_z, pc_leash, pc_kP, pc_last_call>>

\* AP_Baro
VARIABLES
    healthy,                \* the driver's healthy flag as the last read() left it
    pressure, temperature,  \* get_pressure(), get_temperature() of the last read()
    alt_offset, ground_pressure, ground_temperature,    \* stored parameters
    drift_tc, drift_init_period,
    altitude, cal_time,
    drift_window,           \* history: the altitudes handed in since the last calibration
                            \* while the init window was open, and whether a call
                            \* after the window has come
    drift_est,
    drift_est_finite,       \* FALSE: _drift_est is NaN or infinite
    drift_gnd_level, drift_init_count,
    drift_filter,           \* _drift_filter: its alpha and its output
    \* calibrate() while it runs
    cal_pc,                 \* where calibrate() is: "none" before the first call
    cal_i,                  \* the loop counter i
    cal_tstart,             \* tstart
    local_ground_pressure, local_ground_temperature,    \* the two locals
    cal_stored,             \* history: this run reached lines 125-127
    cal_timed_out           \* history: a phase of this run exceeded the timeout

sensorVars == <<healthy, pressure, temperature>>

baroParamVars ==
    <<alt_offset, ground_pressure, ground_temperature, drift_tc, drift_init_period>>

driftVars ==
    <<drift_est, drift_est_finite, drift_gnd_level, drift_init_count, drift_filter>>

calVars ==
    <<cal_pc, cal_i, cal_tstart, local_ground_pressure, local_ground_temperature,
      cal_stored, cal_timed_out>>

baroVars == <<sensorVars, baroParamVars, altitude, cal_time, drift_window, driftVars, calVars>>

vars ==
    <<clockVars, paramVars, loiterVars, wpVars, trackVars, flagVars, splineVars,
      pcVars, baroVars>>

----------------------------------------------------------------------------
(* Construction: AC_WPNav::AC_WPNav.  The initialiser list zeroes the      *)
(* timestamps, the track and the spline scalars; the vectors zero          *)
(* themselves; the parameters take their defaults or their stored values.  *)
(* _flags is not in the initialiser list: its three fields hold whatever   *)
(* the object's storage held.                                              *)

TypeOps ==
    { "boot", "idle", "set_wp_destination", "set_wp_origin_and_destination",
      "update_wpnav", "set_horizontal_velocity", "set_spline_destination",
      "set_spline_origin_and_destination", "update_spline",
      "set_loiter_target", "init_loiter_target", "set_loiter_velocity",
      "set_pilot_desired_acceleration", "update_loiter",
      "calibrate", "update_calibration", "get_altitude", "update_drift_estimate" }

\* AP_Baro::AP_Baro sets the parameters to their defaults or their stored
\* values; the other members are in no initialiser list and hold what the
\* object's storage held.
DriftFilterIdle ==
    [alpha |-> F(1), alpha_finite |-> TRUE, output |-> 0, output_finite |-> TRUE]

\* no calibration yet
DriftWindowNone == [calibrated |-> FALSE, sum |-> 0, calls |-> 0, closed |-> FALSE]

\* a calibration has just set _cal_time
DriftWindowFresh == [calibrated |-> TRUE, sum |-> 0, calls |-> 0, closed |-> FALSE]

\* calibrate() has not been called; the driver has no reading yet
CalibrateIdle ==
    /\ cal_pc = "none"
    /\ cal_i = 0
    /\ cal_tstart = 0
    /\ local_ground_pressure = 0
    /\ local_ground_temperature = 0
    /\ cal_stored = FALSE
    /\ cal_timed_out = FALSE

\* the barometer object with the parameter defaults and zeroed storage
BaroAtRest ==
    /\ healthy = FALSE
    /\ pressure = 0
    /\ temperature = 0
    /\ alt_offset = 0
    /\ ground_pressure = 0
    /\ ground_temperature = 0
    /\ drift_tc = F(BARO_DRIFT_TC)
    /\ drift_init_period = BARO_DRIFT_INIT
    /\ altitude = 0
    /\ cal_time = 0
    /\ drift_window = DriftWindowNone
    /\ drift_est = 0
    /\ drift_est_finite = TRUE
    /\ drift_gnd_level = 0
    /\ drift_init_count = 0
    /\ drift_filter = DriftFilterIdle
    /\ CalibrateIdle

\* the barometer object as a vehicle can hold it at boot: parameters as
\* stored, unlisted members as the storage left them
BaroConstructed ==
    /\ healthy \in BOOLEAN
    /\ pressure = 0
    /\ temperature = 0
    /\ alt_offset \in StoredAltOffsets
    /\ ground_pressure \in StoredGroundPressures
    /\ ground_temperature = 0
    /\ drift_tc \in StoredDriftTcs
    /\ drift_init_period \in StoredDriftInits
    /\ altitude = 0
    /\ cal_time = 0
    /\ drift_window = DriftWindowNone
    /\ drift_est \in StorageFloats
    /\ drift_est_finite = TRUE
    /\ drift_gnd_level \in StorageFloats
    /\ drift_init_count \in StorageCounts
    /\ drift_filter = DriftFilterIdle
    /\ CalibrateIdle

InitWPNav ==
    /\ now = 0
    /\ calls = 0
    /\ op = "boot"
    /\ advanced = FALSE
    /\ tick_dt = 0
    /\ curr_pos = PtA
    /\ sampled_vel = VRest
    /\ wp_speed_cms = F(WPNAV_WP_SPEED)
    /\ wp_accel_cms \in StoredAccels
    /\ loiter_speed_cms = F(WPNAV_LOITER_SPEED)
    /\ loiter_last_update = 0
    /\ pilot_accel_fwd_cms = 0
    /\ pilot_accel_rgt_cms = 0
    /\ loiter_accel_cms = F(WPNAV_LOITER_ACCEL)
    /\ wp_last_update = 0
    /\ wp_ever_updated = FALSE
    /\ origin_src = "none"
    /\ origin = VZero
    /\ destination = VZero
    /\ pos_delta_unit = VZero
    /\ track_length = 0
    /\ track_desired = 0
    /\ limited_speed_xy_cms = 0
    /\ track_accel = 0
    /\ track_speed = 0
    /\ track_leash_length = 0
    /\ track_finite = TRUE
    /\ track_desired_finite = TRUE
    /\ reached_destination \in BOOLEAN
    /\ fast_waypoint \in BOOLEAN
    /\ segment_type \in {SEGMENT_STRAIGHT, SEGMENT_SPLINE}
    /\ spline_time = 0
    /\ spline_time_kind = "fin"
    /\ spline_vel_scaler = 0
    /\ spline_slow_down_dist = 0
    /\ spline_origin_vel = VZero
    /\ spline_destination_vel = VZero
    /\ hermite_spline_solution = <<VZero, VZero, VZero, VZero>>
    /\ spline_vel_scaling = F(1)
    /\ spline_link = NoLink
    /\ pc_pos_target = VZero
    /\ pc_pos_target_finite = TRUE
    /\ pc_desired_vel = <<0, 0>>
    /\ pc_speed_xy = 0
    /\ pc_accel_xy = 0
    /\ pc_speed_z = <<0, 0>>
    /\ pc_leash \in Leashes
    /\ pc_kP \in KPs
    /\ pc_last_call = "none"

Init == InitWPNav /\ BaroAtRest

\* the bookkeeping of one API call
Call(name) ==
    /\ calls < MaxCalls
    /\ calls' = calls + 1
    /\ op' = name
    /\ now' = now
    /\ UNCHANGED baroVars

\* time passes between two calls, once
PassTime(ms) ==
    /\ op # "idle"
    /\ now + ms <= MaxNow
    /\ now' = now + ms
    /\ op' = "idle"
    /\ advanced' = FALSE
    /\ UNCHANGED <<calls, tick_dt, curr_pos, sampled_vel>>
    /\ UNCHANGED <<paramVars, loiterVars, wpVars, trackVars, flagVars, splineVars, pcVars>>
    /\ UNCHANGED baroVars

----------------------------------------------------------------------------
(* Waypoint navigation: straight segments *)

\* set_horizontal_velocity: the range check reads _wp_speed_cms, the value
\* being replaced, not velocity_cms
set_horizontal_velocity(velocity_cms) ==
    /\ Call("set_horizontal_velocity")
    /\ IF wp_speed_cms >= F(WPNAV_WP_SPEED_MIN)
       THEN /\ wp_speed_cms' = velocity_cms
            /\ pc_speed_xy' = velocity_cms
       ELSE UNCHANGED <<wp_speed_cms, pc_speed_xy>>
    /\ advanced' = FALSE
    /\ UNCHANGED <<tick_dt, curr_pos, sampled_vel, wp_accel_cms, loiter_speed_cms>>
    /\ UNCHANGED <<pc_pos_target, pc_pos_target_finite, pc_desired_vel, pc_accel_xy,
                   pc_speed_z, pc_leash, pc_kP, pc_last_call>>
    /\ UNCHANGED <<loiterVars, wpVars, trackVars, flagVars, splineVars>>

\* calculate_wp_leash_length: track_accel, track_speed, track_leash_length
\* along the unit vector
calculate_wp_leash_length(unit, accel_cms, speed_cms, leash) ==
    LET pos_delta_unit_xy == pythagorous2(unit[1], unit[2])
        pos_delta_unit_z == Abs(unit[3])
        speed_z == IF unit[3] >= 0 THEN F(WPNAV_WP_SPEED_UP) ELSE F(WPNAV_WP_SPEED_DOWN)
        leash_z == IF unit[3] >= 0 THEN leash[2] ELSE leash[3]
    IN  IF pos_delta_unit_z = 0 /\ pos_delta_unit_xy = 0
        THEN [accel |-> 0, speed |-> 0, leash |-> F(WPNAV_LEASH_LENGTH_MIN)]
        ELSE IF unit[3] = 0
        THEN [accel |-> Div(accel_cms, pos_delta_unit_xy),
              speed |-> Div(speed_cms, pos_delta_unit_xy),
              leash |-> Div(leash[1], pos_delta_unit_xy)]
        ELSE IF pos_delta_unit_xy = 0
        THEN [accel |-> Div(F(WPNAV_ALT_HOLD_ACCEL_MAX), pos_delta_unit_z),
              speed |-> Div(speed_z, pos_delta_unit_z),
              leash |-> Div(leash_z, pos_delta_unit_z)]
        ELSE [accel |-> Min(Div(F(WPNAV_ALT_HOLD_ACCEL_MAX), pos_delta_unit_z),
                            Div(accel_cms, pos_delta_unit_xy)),
              speed |-> Min(Div(speed_z, pos_delta_unit_z),
                            Div(speed_cms, pos_delta_unit_xy)),
              leash |-> Min(Div(leash_z, pos_delta_unit_z),
                            Div(leash[1], pos_delta_unit_xy))]

\* "check _wp_accel_cms is reasonable": set_and_save(WPNAV_ACCELERATION)
CheckedAccel(accel_cms) ==
    IF accel_cms <= 0 THEN F(WPNAV_ACCELERATION) ELSE accel_cms

\* the unit vector of the track, zero for a zero-length track
PosDeltaUnit(pos_delta, length) ==
    IF length = 0 THEN VZero ELSE VDivF(pos_delta, length)

\* "initialise the limited speed to current speed along the track"
InitialLimitedSpeed(curr_vel, unit, speed_cms) ==
    constrain_float(Dot(curr_vel, unit), 0, speed_cms)

\* what set_wp_origin_and_destination(origin, destination) computes from a
\* finite origin: the track's length and unit vector, the checked
\* acceleration, the leash figures and the seed of the limited speed
WpTrack(o, d, curr_vel) ==
    LET pos_delta == VSub(d, o)
        length == VLength(pos_delta)
        unit == PosDeltaUnit(pos_delta, length)
        accel == CheckedAccel(wp_accel_cms)
    IN  [length |-> length,
         unit |-> unit,
         accel |-> accel,
         leash |-> calculate_wp_leash_length(unit, accel, wp_speed_cms, pc_leash),
         limited |-> InitialLimitedSpeed(curr_vel, unit, wp_speed_cms)]

\* the body of set_wp_origin_and_destination(origin, destination); o_finite is
\* FALSE when the origin handed in holds NaN components
SetWpOriginAndDestination(o, o_finite, d, curr_vel) ==
    \E tk \in {WpTrack(o, d, curr_vel)} :
        /\ origin' = o
        /\ destination' = d
        /\ track_finite' = o_finite
        /\ track_length' = IF o_finite THEN tk.length ELSE 0
        /\ pos_delta_unit' = IF o_finite THEN tk.unit ELSE VZero
        /\ wp_accel_cms' = tk.accel
        /\ pc_speed_xy' = wp_speed_cms
        /\ pc_accel_xy' = tk.accel
        /\ pc_speed_z' = <<-F(WPNAV_WP_SPEED_DOWN), F(WPNAV_WP_SPEED_UP)>>
        /\ track_accel' = IF o_finite THEN tk.leash.accel ELSE 0
        /\ track_speed' = IF o_finite THEN tk.leash.speed ELSE 0
        /\ track_leash_length' = IF o_finite THEN tk.leash.leash ELSE 0
        /\ pc_pos_target' = o
        /\ pc_pos_target_finite' = o_finite
        /\ track_desired' = 0
        /\ track_desired_finite' = TRUE
        /\ reached_destination' = FALSE
        /\ fast_waypoint' = FALSE
        /\ segment_type' = SEGMENT_STRAIGHT
        /\ limited_speed_xy_cms' = IF o_finite THEN tk.limited ELSE 0
        /\ advanced' = FALSE
        /\ UNCHANGED <<tick_dt, curr_pos, sampled_vel, wp_speed_cms, loiter_speed_cms>>
        /\ UNCHANGED <<pc_desired_vel, pc_leash, pc_kP, pc_last_call>>
        /\ UNCHANGED <<loiterVars, wp_last_update, wp_ever_updated, splineVars>>

set_wp_origin_and_destination(o, d, curr_vel) ==
    /\ Call("set_wp_origin_and_destination")
    /\ origin_src' = "argument"
    /\ SetWpOriginAndDestination(o, TRUE, d, curr_vel)

\* set_wp_destination: "if waypoint controller is active use the existing
\* position target as the origin", else the stopping point
WpControllerActive(t, last_update) == t - last_update < ACTIVE_MS

set_wp_destination(d, stopping_point, curr_vel) ==
    /\ Call("set_wp_destination")
    /\ IF WpControllerActive(now, wp_last_update)
       THEN /\ origin_src' = "pos_target"
            /\ SetWpOriginAndDestination(pc_pos_target, pc_pos_target_finite, d, curr_vel)
       ELSE /\ origin_src' = "stopping_point"
            /\ SetWpOriginAndDestination(stopping_point, TRUE, d, curr_vel)

\* an IEEE-754 quotient a / b: finite, or an infinity or NaN when b is zero
FloatDiv(a, b) ==
    IF b # 0 THEN [k |-> "fin", v |-> Div(a, b)]
    ELSE IF a > 0 THEN [k |-> "pinf", v |-> 0]
    ELSE IF a < 0 THEN [k |-> "ninf", v |-> 0]
    ELSE [k |-> "nan", v |-> 0]

\* x < -q for a finite x
LessThanNeg(x, q) ==
    CASE q.k = "fin" -> x < -q.v
      [] q.k = "ninf" -> TRUE
      [] OTHER -> FALSE

\* fabsf(x) < q for a finite x
AbsLessThan(x, q) ==
    CASE q.k = "fin" -> Abs(x) < q.v
      [] q.k = "pinf" -> TRUE
      [] OTHER -> FALSE

\* constrain_float(amt, x - q, x + q) where fabsf(x) < q
ConstrainAround(amt, x, q) ==
    IF q.k = "fin" THEN constrain_float(amt, x - q.v, x + q.v) ELSE amt

\* "calculate point at which velocity switches from linear to sqrt"; the
\* guard is kP >= 0, so kP = 0 divides
LinearVelocity(kP, accel, speed_cms) ==
    IF kP >= 0 THEN FloatDiv(accel, kP) ELSE [k |-> "fin", v |-> speed_cms]

\* "how far along the track we could move the intermediate target before
\* reaching the end of the leash"
TrackDesiredMax(track_covered, track_extra_max) ==
    IF track_extra_max < 0 THEN track_covered ELSE track_covered + track_extra_max

\* (NextTrackDesiredUnclamped is a faulty variant without the clamp and the
\* max.)
\* "advance the current target" and "do not let desired point go past the end
\* of the segment": pinned is _track_desired after the optional pin to
\* track_desired_max, temp is track_desired_temp + _limited_speed_xy_cms * dt
NextTrackDesiredUnclamped(pinned, temp, length) == temp

NextTrackDesired(pinned, temp, length) ==
    Max(pinned, constrain_float(temp, 0, length))

\* (Three faulty variants: ReachedCheckAnywhere drops the test of
\* _track_desired, ReachedCheckNoRadius the test of the waypoint radius,
\* ReachedCheckUnlatched the test of the flag itself.)
ReachedCheckUnlatched(reached, desired, length, fast, pos, dest) ==
    desired >= length /\ (fast \/ VLength(VSub(pos, dest)) <= F(WPNAV_WP_RADIUS))

ReachedCheckAnywhere(reached, desired, length, fast, pos, dest) ==
    reached \/ fast \/ VLength(VSub(pos, dest)) <= F(WPNAV_WP_RADIUS)

ReachedCheckNoRadius(reached, desired, length, fast, pos, dest) ==
    reached \/ desired >= length

\* "check if we've reached the waypoint"
ReachedCheck(reached, desired, length, fast, pos, dest) ==
    IF ~reached
    THEN IF desired >= length
         THEN IF fast THEN TRUE ELSE VLength(VSub(pos, dest)) <= F(WPNAV_WP_RADIUS)
         ELSE reached
    ELSE reached

\* advance_wp_target_along_track(dt) on a finite track: the new
\* _limited_speed_xy_cms, _track_desired, position target and reached flag
advance_wp_target_along_track(pos, vel, dt) ==
    LET curr_delta == VSub(pos, origin)
        track_covered == Dot(curr_delta, pos_delta_unit)
        track_covered_pos == VScale(pos_delta_unit, track_covered)
        track_error == VSub(curr_delta, track_covered_pos)
        track_error_xy == pythagorous2(track_error[1], track_error[2])
        track_error_z == Abs(track_error[3])
        leash_xy == pc_leash[1]
        leash_z == IF track_error[3] >= 0 THEN pc_leash[2] ELSE pc_leash[3]
        track_extra_max ==
            Min(Div(Mul(track_leash_length, leash_z - track_error_z), leash_z),
                Div(Mul(track_leash_length, leash_xy - track_error_xy), leash_xy))
        track_desired_max == TrackDesiredMax(track_covered, track_extra_max)
        speed_along_track == Dot(vel, pos_delta_unit)
        linear_velocity == LinearVelocity(pc_kP, track_accel, wp_speed_cms)
        wrong_way == LessThanNeg(speed_along_track, linear_velocity)
        ahead == track_desired_max > track_desired
        accelerated ==
            IF dt > 0 /\ ahead
            THEN limited_speed_xy_cms + Mul(2 * track_accel, dt)
            ELSE limited_speed_xy_cms
        capped == IF accelerated > track_speed THEN track_speed ELSE accelerated
        limited ==
            IF wrong_way THEN 0
            ELSE IF AbsLessThan(speed_along_track, linear_velocity)
            THEN ConstrainAround(capped, speed_along_track, linear_velocity)
            ELSE capped
        pinned ==
            IF ~wrong_way /\ dt > 0 /\ ~ahead THEN track_desired_max ELSE track_desired
        desired == NextTrackDesired(pinned, track_desired + Mul(limited, dt), track_length)
    IN  [limited |-> limited,
         desired |-> desired,
         target |-> VAdd(origin, VScale(pos_delta_unit, desired)),
         reached |-> ReachedCheck(reached_destination, desired, track_length,
                                  fast_waypoint, pos, destination),
         desired_max |-> track_desired_max,
         extra_max |-> track_extra_max,
         covered |-> track_covered]

\* dt = (now - last_update) / 1000.0f
ElapsedSeconds(t, last_update) == Div(F(t - last_update), F(1000))

\* "double check dt is reasonable"
ReasonableDt(dt) == IF dt >= F(1) THEN 0 ELSE dt

\* update_wpnav.  On a NaN track every comparison of the advance is false:
\* _track_desired, _limited_speed_xy_cms and the target become NaN and the
\* reached flag stays as it is.
update_wpnav(pos, vel) ==
    LET dt == ElapsedSeconds(now, wp_last_update)
    IN  /\ Call("update_wpnav")
        /\ IF dt >= WPNAV_WP_UPDATE_TIME
           THEN /\ wp_last_update' = now
                /\ wp_ever_updated' = TRUE
                /\ advanced' = TRUE
                /\ tick_dt' = ReasonableDt(dt)
                /\ curr_pos' = pos
                /\ UNCHANGED sampled_vel
                /\ IF track_finite
                   THEN \E r \in {advance_wp_target_along_track(pos, vel, ReasonableDt(dt))} :
                            /\ limited_speed_xy_cms' = r.limited
                            /\ track_desired' = r.desired
                            /\ track_desired_finite' = TRUE
                            /\ pc_pos_target' = r.target
                            /\ pc_pos_target_finite' = TRUE
                            /\ reached_destination' = r.reached
                   ELSE /\ track_desired_finite' = FALSE
                        /\ pc_pos_target_finite' = FALSE
                        /\ UNCHANGED <<limited_speed_xy_cms, track_desired,
                                       pc_pos_target, reached_destination>>
                /\ pc_last_call' = "trigger_xy"
           ELSE /\ pc_last_call' = "update_xy_controller"
                /\ advanced' = FALSE
                /\ UNCHANGED <<wp_last_update, wp_ever_updated, tick_dt, curr_pos, sampled_vel,
                               limited_speed_xy_cms, track_desired,
                               track_desired_finite, pc_pos_target,
                               pc_pos_target_finite, reached_destination>>
        /\ UNCHANGED <<origin_src, origin, destination, pos_delta_unit, track_length,
                       track_accel, track_speed, track_leash_length, track_finite,
                       fast_waypoint, segment_type>>
        /\ UNCHANGED <<pc_desired_vel, pc_speed_xy, pc_accel_xy, pc_speed_z, pc_leash, pc_kP>>
        /\ UNCHANGED <<paramVars, loiterVars, splineVars>>

----------------------------------------------------------------------------
(* Waypoint navigation: spline segments *)

\* update_spline_solution: the Hermite coefficients
update_spline_solution(o, d, origin_vel, dest_vel) ==
    << o,
       origin_vel,
       VSub(VAdd(VSub(VNeg(VTimes(o, 3)), VTimes(origin_vel, 2)), VTimes(d, 3)), dest_vel),
       VAdd(VSub(VAdd(VTimes(o, 2), origin_vel), VTimes(d, 2)), dest_vel) >>

\* calc_spline_pos_vel at a finite spline_time
SplinePosition(h, t) ==
    LET t2 == Mul(t, t)
        t3 == Mul(t2, t)
    IN  VAdd(VAdd(VAdd(h[1], VScale(h[2], t)), VScale(h[3], t2)), VScale(h[4], t3))

SplineVelocity(h, t) ==
    LET t2 == Mul(t, t)
    IN  VAdd(VAdd(h[2], VScale(VTimes(h[3], 2), t)), VScale(VTimes(h[4], 3), t2))

\* mission is "active" if wpnav has been called recently and vehicle reached
\* the previous waypoint
PrevSegmentExists(reached, t, last_update) == reached /\ t - last_update < ACTIVE_MS

\* (SplineOriginVelFresh is a faulty variant that never continues the
\* previous segment.)
SplineOriginVelFresh(o, d, stopped_at_start, prev_segment_exists) ==
    VScale(VSub(d, o), FP \div 10)

\* "calculate spline velocity at origin": the tangent, and the spline time
\* the segment starts with
SplineOriginVel(o, d, stopped_at_start, prev_segment_exists) ==
    IF stopped_at_start \/ ~prev_segment_exists
    THEN VScale(VSub(d, o), FP \div 10)
    ELSE IF segment_type = SEGMENT_STRAIGHT
    THEN VSub(destination, origin)
    ELSE spline_destination_vel

\* (CarriedSplineTimeAny is a faulty variant without the upper limit 1.1.)
CarriedSplineTimeAny(t, kind) == IF kind = "fin" /\ t > F(1) THEN t - F(1) ELSE 0

\* the overshoot carry-over "_spline_time > 1.0f && _spline_time < 1.1f"
CarriedSplineTime(t, kind) ==
    IF kind = "fin" /\ t > F(1) /\ t < F(1) + FP \div 10 THEN t - F(1) ELSE 0

SplineStartTime(stopped_at_start, prev_segment_exists) ==
    IF stopped_at_start \/ ~prev_segment_exists
    THEN 0
    ELSE IF segment_type = SEGMENT_STRAIGHT
    THEN 0
    ELSE CarriedSplineTime(spline_time, spline_time_kind)

\* "calculate spline velocity at destination"
SplineDestinationVel(o, d, seg_end_type, next_destination) ==
    CASE seg_end_type = SEGMENT_END_STOP -> VScale(VSub(d, o), FP \div 10)
      [] seg_end_type = SEGMENT_END_STRAIGHT -> VSub(next_destination, d)
      [] seg_end_type = SEGMENT_END_SPLINE -> VSub(next_destination, o)

SplineFastWaypoint(seg_end_type) == seg_end_type # SEGMENT_END_STOP

\* "code below ensures we don't get too much overshoot when the next segment
\* is short": the factor applied to both tangents, F(1) when none is
VelScaling(o, d, origin_vel, dest_vel) ==
    LET vel_len == VLength(VAdd(origin_vel, dest_vel))
        pos_len == 4 * VLength(VSub(d, o))
    IN  IF vel_len > pos_len THEN Div(pos_len, vel_len) ELSE F(1)

\* the tangent handed to update_spline_solution
ScaledTangent(v, o, d, origin_vel, dest_vel) ==
    LET vel_len == VLength(VAdd(origin_vel, dest_vel))
        pos_len == 4 * VLength(VSub(d, o))
    IN  IF vel_len > pos_len THEN VScale(v, Div(pos_len, vel_len)) ELSE v

\* "calculate slow down distance"
SlowDownDist(speed_cms, accel_cms) == Div(Mul(speed_cms, speed_cms), 2 * accel_cms)

\* what set_spline_origin_and_destination computes: the two tangents, the
\* start time, the overshoot factor, the Hermite solution, the checked
\* acceleration and the leash figures.  calculate_wp_leash_length runs on
\* _pos_delta_unit as the last straight segment left it.
SplineSegment(o, d, stopped_at_start, seg_end_type, next_destination) ==
    LET prev_segment_exists == PrevSegmentExists(reached_destination, now, wp_last_update)
        accel == CheckedAccel(wp_accel_cms)
        origin_vel == SplineOriginVel(o, d, stopped_at_start, prev_segment_exists)
        dest_vel == SplineDestinationVel(o, d, seg_end_type, next_destination)
    IN  [prev_segment_exists |-> prev_segment_exists,
         accel |-> accel,
         origin_vel |-> origin_vel,
         dest_vel |-> dest_vel,
         time |-> SplineStartTime(stopped_at_start, prev_segment_exists),
         vel_scaling |-> VelScaling(o, d, origin_vel, dest_vel),
         solution |-> update_spline_solution(o, d,
                          ScaledTangent(origin_vel, o, d, origin_vel, dest_vel),
                          ScaledTangent(dest_vel, o, d, origin_vel, dest_vel)),
         leash |-> calculate_wp_leash_length(pos_delta_unit, accel, wp_speed_cms, pc_leash),
         slow_down_dist |-> SlowDownDist(wp_speed_cms, accel)]

\* the body of set_spline_origin_and_destination
SetSplineOriginAndDestination(o, d, stopped_at_start, seg_end_type, next_destination) ==
    \E sg \in {SplineSegment(o, d, stopped_at_start, seg_end_type, next_destination)} :
        /\ wp_accel_cms' = sg.accel
        /\ spline_origin_vel' = sg.origin_vel
        /\ spline_time' = sg.time
        /\ spline_time_kind' = "fin"
        /\ spline_vel_scaler' = 0
        /\ spline_destination_vel' = sg.dest_vel
        /\ fast_waypoint' = SplineFastWaypoint(seg_end_type)
        /\ spline_vel_scaling' = sg.vel_scaling
        /\ spline_link' =
              [chained |-> sg.prev_segment_exists /\ ~stopped_at_start
                           /\ segment_type = SEGMENT_SPLINE,
               end_type |-> seg_end_type,
               prev_end_type |-> spline_link.end_type,
               prev_end_vel |-> SplineVelocity(hermite_spline_solution, F(1)),
               prev_vel_scaling |-> spline_vel_scaling]
        /\ hermite_spline_solution' = sg.solution
        /\ origin' = o
        /\ destination' = d
        /\ pc_speed_xy' = wp_speed_cms
        /\ pc_accel_xy' = sg.accel
        /\ pc_speed_z' = <<-F(WPNAV_WP_SPEED_DOWN), F(WPNAV_WP_SPEED_UP)>>
        /\ track_accel' = IF track_finite THEN sg.leash.accel ELSE 0
        /\ track_speed' = IF track_finite THEN sg.leash.speed ELSE 0
        /\ track_leash_length' = IF track_finite THEN sg.leash.leash ELSE 0
        /\ spline_slow_down_dist' = sg.slow_down_dist
        /\ pc_pos_target' = o
        /\ pc_pos_target_finite' = TRUE
        /\ reached_destination' = FALSE
        /\ segment_type' = SEGMENT_SPLINE
        /\ advanced' = FALSE
        /\ UNCHANGED <<tick_dt, curr_pos, sampled_vel, wp_speed_cms, loiter_speed_cms>>
        /\ UNCHANGED <<pos_delta_unit, track_length, track_desired, limited_speed_xy_cms,
                       track_finite, track_desired_finite>>
        /\ UNCHANGED <<pc_desired_vel, pc_leash, pc_kP, pc_last_call>>
        /\ UNCHANGED <<loiterVars, wp_last_update, wp_ever_updated>>

set_spline_origin_and_destination(o, d, stopped_at_start, seg_end_type, next_destination) ==
    /\ Call("set_spline_origin_and_destination")
    /\ origin_src' = "argument"
    /\ SetSplineOriginAndDestination(o, d, stopped_at_start, seg_end_type, next_destination)

\* (set_spline_destination_noop is a faulty variant that returns at once.)
set_spline_destination_noop(d, stopping_point, stopped_at_start, seg_end_type, next_destination) ==
    /\ Call("set_spline_destination")
    /\ UNCHANGED <<advanced, tick_dt, curr_pos, sampled_vel>>
    /\ UNCHANGED <<paramVars, loiterVars, wpVars, trackVars, flagVars, splineVars, pcVars>>

\* set_spline_destination: "if waypoint controller is active and copter has
\* reached the previous waypoint use it for the origin"
set_spline_destination(d, stopping_point, stopped_at_start, seg_end_type, next_destination) ==
    /\ Call("set_spline_destination")
    /\ IF PrevSegmentExists(reached_destination, now, wp_last_update)
       THEN /\ origin_src' = "destination"
            /\ SetSplineOriginAndDestination(destination, d, stopped_at_start,
                                             seg_end_type, next_destination)
       ELSE /\ origin_src' = "stopping_point"
            /\ SetSplineOriginAndDestination(stopping_point, d, stopped_at_start,
                                             seg_end_type, next_destination)

\* One component of calc_spline_pos_vel's velocity at spline_time = -inf:
\* h1 + h2 * 2 * (-inf) + h3 * 3 * (+inf)
VelocityComponentAtNegInf(h2, h3) ==
    IF h2 = 0 \/ h3 = 0 \/ Sgn(-h2) # Sgn(h3) THEN "nan" ELSE "inf"

\* spline_time_scale = _spline_vel_scaler / target_vel.length() when
\* _spline_time is not finite: the length is NaN, or infinite
TimeScaleAtNonFinite(kind, h, scaler) ==
    IF kind = "ninf"
       /\ \A i \in 1..3 : VelocityComponentAtNegInf(h[3][i], h[4][i]) = "inf"
    THEN [k |-> "fin", v |-> 0]
    ELSE [k |-> "nan", v |-> 0]

\* "update velocity": the scaler before it is capped
SplineVelScaler(scaler, slow_down, dist_to_wp, accel_cms, speed_cms) ==
    IF slow_down
    THEN safe_sqrt(Mul(dist_to_wp * 2, accel_cms))
    ELSE IF scaler < speed_cms
    THEN scaler + Mul(accel_cms, FP \div 10)
    ELSE scaler

\* "constrain target velocity"
CapSplineVelScaler(scaler, speed_cms) == IF scaler > speed_cms THEN speed_cms ELSE scaler

\* _spline_time += spline_time_scale * dt, in IEEE arithmetic
AdvanceSplineTime(t, kind, scale, dt) ==
    CASE kind = "nan" \/ scale.k = "nan" -> [k |-> "nan", v |-> 0]
      [] kind # "nan" /\ scale.k \in {"pinf", "ninf"} ->
            IF dt = 0 \/ (kind \in {"pinf", "ninf"} /\ kind # scale.k)
            THEN [k |-> "nan", v |-> 0]
            ELSE [k |-> scale.k, v |-> 0]
      [] kind \in {"pinf", "ninf"} /\ scale.k = "fin" -> [k |-> kind, v |-> 0]
      [] kind = "fin" /\ scale.k = "fin" -> [k |-> "fin", v |-> t + Mul(scale.v, dt)]

\* (SplineReachedAlways is a faulty variant that sets the flag in every tick.)
SplineReachedAlways(t) == TRUE

\* "we will reach the next waypoint in the next step so set reached_destination flag"
SplineReached(t) == t.k = "pinf" \/ (t.k = "fin" /\ t.v >= F(1))

\* advance_spline_target_along_track, entered with ~_flags.reached_destination
advance_spline_target_along_track(dt) ==
    LET finite == spline_time_kind = "fin"
        target_pos == SplinePosition(hermite_spline_solution, spline_time)
        target_vel == SplineVelocity(hermite_spline_solution, spline_time)
        spline_dist_to_wp == VLength(VSub(destination, target_pos))
        slow_down == finite /\ ~fast_waypoint /\ spline_dist_to_wp < spline_slow_down_dist
        scaler == CapSplineVelScaler(
                      SplineVelScaler(spline_vel_scaler, slow_down,
                                      IF finite THEN spline_dist_to_wp ELSE 0,
                                      wp_accel_cms, wp_speed_cms),
                      wp_speed_cms)
        spline_time_scale ==
            IF finite
            THEN FloatDiv(scaler, VLength(target_vel))
            ELSE TimeScaleAtNonFinite(spline_time_kind, hermite_spline_solution, scaler)
        t == AdvanceSplineTime(spline_time, spline_time_kind, spline_time_scale, dt)
    IN  [scaler |-> scaler,
         scale |-> spline_time_scale,
         target |-> IF finite THEN target_pos ELSE pc_pos_target,
         target_finite |-> finite,
         time |-> t,
         reached |-> SplineReached(t)]

\* The body of update_spline with millis() returning t.  pos is the inertial
\* position while the call runs; the code does not read it.  stamp is the
\* value _wp_last_update takes: t, on the clock the body was given.
UpdateSpline(pos, t, stamp) ==
    LET dt == ElapsedSeconds(t, wp_last_update)
    IN  /\ IF segment_type # SEGMENT_SPLINE
           THEN /\ advanced' = FALSE
                /\ UNCHANGED <<wp_last_update, wp_ever_updated, tick_dt,
                               spline_vel_scaler, spline_time, spline_time_kind,
                               pc_pos_target, pc_pos_target_finite,
                               reached_destination, pc_last_call>>
           ELSE IF dt >= WPNAV_WP_UPDATE_TIME
           THEN /\ wp_last_update' = stamp
                /\ wp_ever_updated' = TRUE
                /\ tick_dt' = ReasonableDt(dt)
                /\ IF ~reached_destination
                   THEN /\ Abs(spline_time) <= F(MaxSplineTime)
                        /\ \E r \in {advance_spline_target_along_track(ReasonableDt(dt))} :
                              /\ advanced' = TRUE
                              /\ spline_vel_scaler' = r.scaler
                              /\ spline_time' = r.time.v
                              /\ spline_time_kind' = r.time.k
                              /\ pc_pos_target' = r.target
                              /\ pc_pos_target_finite' = r.target_finite
                              /\ reached_destination' = r.reached
                   ELSE /\ advanced' = FALSE
                        /\ UNCHANGED <<spline_vel_scaler, spline_time, spline_time_kind,
                                       pc_pos_target, pc_pos_target_finite,
                                       reached_destination>>
                /\ pc_last_call' = "trigger_xy"
           ELSE /\ pc_last_call' = "update_xy_controller"
                /\ advanced' = FALSE
                /\ UNCHANGED <<wp_last_update, wp_ever_updated, tick_dt,
                               spline_vel_scaler, spline_time, spline_time_kind,
                               pc_pos_target, pc_pos_target_finite, reached_destination>>
        /\ curr_pos' = pos
        /\ UNCHANGED sampled_vel
        /\ UNCHANGED <<origin_src, trackVars, fast_waypoint, segment_type>>
        /\ UNCHANGED <<spline_slow_down_dist, spline_origin_vel, spline_destination_vel,
                       hermite_spline_solution, spline_vel_scaling, spline_link>>
        /\ UNCHANGED <<pc_desired_vel, pc_speed_xy, pc_accel_xy, pc_speed_z, pc_leash, pc_kP>>
        /\ UNCHANGED <<paramVars, loiterVars>>

\* update_spline
update_spline(pos) ==
    /\ Call("update_spline")
    /\ UpdateSpline(pos, now, now)

\* update_spline as the scheduler runs it on a segment that has been set: one
\* call ms after the last, without a budget of calls.  The code reads the
\* clock only as now - _wp_last_update, and the time of the last tick is
\* kept as the origin of the clock.
spline_loop(ms) ==
    /\ op # "boot"
    /\ op' = "update_spline"
    /\ UNCHANGED <<now, calls, baroVars>>
    /\ UpdateSpline(PtA, now + ms, wp_last_update)

----------------------------------------------------------------------------
(* Loiter controller *)

\* (LoiterAccelFull is a faulty variant that forgets to halve.)
LoiterAccelFull(speed_cms) == speed_cms

\* "initialise pos controller acceleration": _loiter_speed_cms / 2.0f
LoiterAccel(speed_cms) == Div(speed_cms, F(2))

\* what set_loiter_target and init_loiter_target share; desired_vel is the
\* feed forward velocity each of them hands to the position controller
InitLoiter(pos, desired_vel) ==
    /\ pc_pos_target' = pos
    /\ pc_pos_target_finite' = TRUE
    /\ pc_desired_vel' = desired_vel
    /\ pc_speed_xy' = loiter_speed_cms
    /\ loiter_accel_cms' = LoiterAccel(loiter_speed_cms)
    /\ pc_accel_xy' = LoiterAccel(loiter_speed_cms)
    /\ pilot_accel_fwd_cms' = 0
    /\ pilot_accel_rgt_cms' = 0
    /\ advanced' = FALSE
    /\ curr_pos' = pos
    /\ UNCHANGED <<tick_dt, paramVars, loiter_last_update, wpVars, trackVars, flagVars,
                   splineVars, pc_speed_z, pc_leash, pc_kP, pc_last_call>>

\* set_loiter_target: the target is the inertial position pos, whatever
\* the argument
set_loiter_target(position, pos) ==
    /\ Call("set_loiter_target")
    /\ InitLoiter(pos, <<0, 0>>)
    /\ UNCHANGED sampled_vel

\* init_loiter_target
init_loiter_target(pos, curr_vel) ==
    /\ Call("init_loiter_target")
    /\ InitLoiter(pos, <<curr_vel[1], curr_vel[2]>>)
    /\ sampled_vel' = curr_vel

\* set_loiter_velocity
set_loiter_velocity(velocity_cms) ==
    /\ Call("set_loiter_velocity")
    /\ IF velocity_cms >= F(WPNAV_LOITER_SPEED_MIN)
       THEN /\ loiter_speed_cms' = velocity_cms
            /\ pc_speed_xy' = velocity_cms
            /\ loiter_accel_cms' = LoiterAccel(velocity_cms)
            /\ pc_accel_xy' = LoiterAccel(velocity_cms)
       ELSE UNCHANGED <<loiter_speed_cms, pc_speed_xy, loiter_accel_cms, pc_accel_xy>>
    /\ advanced' = FALSE
    /\ UNCHANGED <<tick_dt, curr_pos, sampled_vel, wp_speed_cms, wp_accel_cms, loiter_last_update,
                   pilot_accel_fwd_cms, pilot_accel_rgt_cms, wpVars, trackVars, flagVars,
                   splineVars, pc_pos_target, pc_pos_target_finite, pc_desired_vel,
                   pc_speed_z, pc_leash, pc_kP, pc_last_call>>

\* "convert pilot input to desired acceleration in cm/s/s"
PilotAccel(control, accel_cms) == Div(Mul(control, accel_cms), F(4500))

\* set_pilot_desired_acceleration
set_pilot_desired_acceleration(control_roll, control_pitch) ==
    /\ Call("set_pilot_desired_acceleration")
    /\ pilot_accel_fwd_cms' = PilotAccel(-control_pitch, loiter_accel_cms)
    /\ pilot_accel_rgt_cms' = PilotAccel(control_roll, loiter_accel_cms)
    /\ advanced' = FALSE
    /\ UNCHANGED <<tick_dt, curr_pos, sampled_vel, paramVars, loiter_last_update, loiter_accel_cms,
                   wpVars, trackVars, flagVars, splineVars, pcVars>>

\* (WindResistanceNoBrake is a faulty variant without the constant
\* deceleration WPNAV_LOITER_ACCEL_MIN.)
WindResistanceNoBrake(v, accel_cms, speed_cms, nav_dt) ==
    v - Div(Mul(Mul(accel_cms - F(WPNAV_LOITER_ACCEL_MIN), nav_dt), v), speed_cms)

\* "reduce velocity with fake wind resistance", one axis
WindResistance(v, accel_cms, speed_cms, nav_dt) ==
    LET drag == Div(Mul(Mul(accel_cms - F(WPNAV_LOITER_ACCEL_MIN), nav_dt), v), speed_cms)
        brake == Mul(F(WPNAV_LOITER_ACCEL_MIN), nav_dt)
    IN  IF v > 0 THEN Max(v - drag - brake, 0)
        ELSE IF v < 0 THEN Min(v - drag + brake, 0)
        ELSE v

\* (ConstrainLoiterVelocityOff is a faulty variant that never scales.)
ConstrainLoiterVelocityOff(v, speed_cms) == v

\* "constrain and scale the feed forward velocity if necessary"
ConstrainLoiterVelocity(v, speed_cms) ==
    LET vel_total == pythagorous2(v[1], v[2])
    IN  IF vel_total > speed_cms /\ vel_total > 0
        THEN << Div(Mul(speed_cms, v[1]), vel_total), Div(Mul(speed_cms, v[2]), vel_total) >>
        ELSE v

\* "check loiter speed and avoid divide by zero"
CheckedLoiterSpeed(speed_cms) ==
    IF speed_cms < F(WPNAV_LOITER_SPEED_MIN) THEN F(WPNAV_LOITER_SPEED_MIN) ELSE speed_cms

\* calc_loiter_desired_velocity with nav_dt >= 0: the new desired velocity
calc_loiter_desired_velocity(nav_dt, cos_yaw, sin_yaw) ==
    LET speed == CheckedLoiterSpeed(loiter_speed_cms)
        accel == IF loiter_speed_cms < F(WPNAV_LOITER_SPEED_MIN)
                 THEN LoiterAccel(speed) ELSE loiter_accel_cms
        desired_accel ==
            << Mul(pilot_accel_fwd_cms, cos_yaw) - Mul(pilot_accel_rgt_cms, sin_yaw),
               Mul(pilot_accel_fwd_cms, sin_yaw) + Mul(pilot_accel_rgt_cms, cos_yaw) >>
        pushed == << pc_desired_vel[1] + Mul(desired_accel[1], nav_dt),
                     pc_desired_vel[2] + Mul(desired_accel[2], nav_dt) >>
        slowed == << WindResistance(pushed[1], accel, speed, nav_dt),
                     WindResistance(pushed[2], accel, speed, nav_dt) >>
    IN  [speed |-> speed, accel |-> accel, vel |-> ConstrainLoiterVelocity(slowed, speed)]

\* the body of update_loiter, run when millis() returns t
UpdateLoiter(t, cos_yaw, sin_yaw) ==
    LET dt == ElapsedSeconds(t, loiter_last_update)
    IN  /\ IF dt >= WPNAV_LOITER_UPDATE_TIME
           THEN \E r \in {calc_loiter_desired_velocity(ReasonableDt(dt), cos_yaw, sin_yaw)} :
                    /\ loiter_last_update' = t
                    /\ advanced' = TRUE
                    /\ tick_dt' = ReasonableDt(dt)
                    /\ loiter_speed_cms' = r.speed
                    /\ loiter_accel_cms' = r.accel
                    /\ pc_desired_vel' = r.vel
                    /\ pc_last_call' = "trigger_xy"
           ELSE /\ pc_last_call' = "update_xy_controller"
                /\ advanced' = FALSE
                /\ UNCHANGED <<loiter_last_update, tick_dt, loiter_speed_cms,
                               loiter_accel_cms, pc_desired_vel>>
        /\ UNCHANGED <<curr_pos, sampled_vel, wp_speed_cms, wp_accel_cms, pilot_accel_fwd_cms,
                       pilot_accel_rgt_cms, wpVars, trackVars, flagVars, splineVars>>
        /\ UNCHANGED <<pc_pos_target, pc_pos_target_finite, pc_speed_xy, pc_accel_xy,
                       pc_speed_z, pc_leash, pc_kP>>

\* update_loiter
update_loiter(cos_yaw, sin_yaw) ==
    /\ Call("update_loiter")
    /\ UpdateLoiter(now, cos_yaw, sin_yaw)

\* update_loiter as the 100 Hz loop runs it: one call after each period,
\* without a budget of calls
loiter_loop(cos_yaw, sin_yaw) ==
    /\ op = "idle"
    /\ op' = "update_loiter"
    /\ UNCHANGED <<now, calls, baroVars>>
    /\ UpdateLoiter(now, cos_yaw, sin_yaw)

----------------------------------------------------------------------------
(* AP_Baro *)

\* what no barometer call touches
navVars ==
    <<advanced, tick_dt, curr_pos, sampled_vel, paramVars, loiterVars, wpVars,
      trackVars, flagVars, splineVars, pcVars>>

\* the bookkeeping of one barometer call
BaroCall(name) ==
    /\ cal_pc \in {"none", "done"}
    /\ calls < MaxBaroCalls
    /\ calls' = calls + 1
    /\ op' = name
    /\ UNCHANGED navVars

\* time passes between two barometer calls, once
baro_delay(ms) ==
    /\ cal_pc \in {"none", "done"}
    /\ op # "idle"
    /\ now + ms <= MaxBaroNow
    /\ now' = now + ms
    /\ op' = "idle"
    /\ UNCHANGED <<calls, navVars, baroVars>>

\* hal.scheduler->panic with control returning to the caller
panic_returns(from) == from

\* hal.scheduler->panic called at the position from of calibrate(): the
\* platform reports the fatal error and never gives control back
panic(from) == "panic"

\* calibrate(), up to the entry of the first loop: ground_pressure is 0 there,
\* so the loop body always runs
calibrate_begin ==
    /\ BaroCall("calibrate")
    /\ alt_offset' = 0
    /\ local_ground_pressure' = 0
    /\ local_ground_temperature' = 0
    /\ cal_tstart' = now
    /\ cal_i' = 0
    /\ cal_pc' = "phase1"
    /\ cal_stored' = FALSE
    /\ cal_timed_out' = FALSE
    /\ UNCHANGED <<now, sensorVars, ground_pressure, ground_temperature, drift_tc,
                   drift_init_period, altitude, cal_time, drift_window, driftVars>>

\* one turn of the first loop: read() takes ms and leaves the reading rd
calibrate_phase1(ms, rd) ==
    /\ cal_pc = "phase1"
    /\ healthy' = rd[1] /\ pressure' = rd[2] /\ temperature' = rd[3]
    /\ LET t == now + ms
           timed_out == t - cal_tstart > CAL_TIMEOUT_MS
           after == IF timed_out THEN panic("phase1") ELSE "phase1"
       IN  /\ cal_timed_out' = (cal_timed_out \/ timed_out)
           /\ IF after = "panic"
              THEN /\ cal_pc' = "panic"
                   /\ now' = t
                   /\ UNCHANGED <<cal_i, cal_tstart, local_ground_pressure,
                                  local_ground_temperature>>
              ELSE /\ local_ground_pressure' = rd[2]
                   /\ local_ground_temperature' = rd[3]
                   /\ now' = t + CAL_FIRST_DELAY_MS
                   /\ IF rd[2] = 0 \/ ~rd[1]
                      THEN UNCHANGED <<cal_pc, cal_i, cal_tstart>>
                      ELSE /\ cal_pc' = "phase2"
                           /\ cal_i' = 0
                           /\ cal_tstart' = t + CAL_FIRST_DELAY_MS
    /\ UNCHANGED <<calls, op, navVars, baroParamVars, altitude, cal_time, drift_window, driftVars,
                   cal_stored>>

\* one read() of a settling pass, and the rest of the pass once it is healthy
calibrate_phase2(ms, rd) ==
    /\ cal_pc = "phase2"
    /\ healthy' = rd[1] /\ pressure' = rd[2] /\ temperature' = rd[3]
    /\ LET t == now + ms
           timed_out == t - cal_tstart > CAL_TIMEOUT_MS
           after == IF timed_out THEN panic("phase2") ELSE "phase2"
       IN  /\ cal_timed_out' = (cal_timed_out \/ timed_out)
           /\ IF after = "panic"
              THEN /\ cal_pc' = "panic"
                   /\ now' = t
                   /\ UNCHANGED <<cal_i, cal_tstart, local_ground_pressure,
                                  local_ground_temperature>>
              ELSE IF ~rd[1]
              THEN /\ now' = t
                   /\ UNCHANGED <<cal_pc, cal_i, cal_tstart, local_ground_pressure,
                                  local_ground_temperature>>
              ELSE /\ local_ground_pressure' = rd[2]
                   /\ local_ground_temperature' = rd[3]
                   /\ now' = t + CAL_PASS_DELAY_MS
                   /\ cal_tstart' = t + CAL_PASS_DELAY_MS
                   /\ IF cal_i + 1 < CAL_SETTLE_PASSES
                      THEN cal_i' = cal_i + 1 /\ cal_pc' = "phase2"
                      ELSE cal_i' = 0 /\ cal_pc' = "phase3"
    /\ UNCHANGED <<calls, op, navVars, baroParamVars, altitude, cal_time, drift_window, driftVars,
                   cal_stored>>

\* new = 0.8 old + 0.2 sample
GroundAverage(old, sample) == Mul(old, (4 * FP) \div 5) + Mul(sample, FP \div 5)

\* one read() of an averaging pass, the rest of the pass once it is healthy,
\* and after the last pass the three stores that end calibrate()
calibrate_phase3(ms, rd) ==
    /\ cal_pc = "phase3"
    /\ healthy' = rd[1] /\ pressure' = rd[2] /\ temperature' = rd[3]
    /\ UNCHANGED <<alt_offset, drift_tc, drift_init_period>>
    /\ LET t == now + ms
           timed_out == t - cal_tstart > CAL_TIMEOUT_MS
           after == IF timed_out THEN panic("phase3") ELSE "phase3"
           gp == GroundAverage(local_ground_pressure, rd[2])
           gt == GroundAverage(local_ground_temperature, rd[3])
       IN  /\ cal_timed_out' = (cal_timed_out \/ timed_out)
           /\ IF after = "panic"
              THEN /\ cal_pc' = "panic"
                   /\ now' = t
                   /\ UNCHANGED <<cal_i, cal_tstart, local_ground_pressure,
                                  local_ground_temperature, ground_pressure,
                                  ground_temperature, cal_time, drift_window, cal_stored>>
              ELSE IF ~rd[1]
              THEN /\ now' = t
                   /\ UNCHANGED <<cal_pc, cal_i, cal_tstart, local_ground_pressure,
                                  local_ground_temperature, ground_pressure,
                                  ground_temperature, cal_time, drift_window, cal_stored>>
              ELSE /\ local_ground_pressure' = gp
                   /\ local_ground_temperature' = gt
                   /\ now' = t + CAL_PASS_DELAY_MS
                   /\ cal_tstart' = t + CAL_PASS_DELAY_MS
                   /\ IF cal_i + 1 < CAL_AVERAGE_PASSES
                      THEN /\ cal_i' = cal_i + 1
                           /\ UNCHANGED <<cal_pc, ground_pressure, ground_temperature,
                                          cal_time, drift_window, cal_stored>>
                      ELSE /\ cal_i' = 0
                           /\ cal_pc' = "done"
                           /\ ground_pressure' = gp
                           /\ ground_temperature' = gt
                           /\ cal_time' = t + CAL_PASS_DELAY_MS
                           /\ drift_window' = DriftWindowFresh
                           /\ cal_stored' = TRUE
    /\ UNCHANGED <<calls, op, navVars, altitude, driftVars>>

\* update_calibration
update_calibration ==
    /\ BaroCall("update_calibration")
    /\ ground_pressure' = pressure
    /\ ground_temperature' = temperature
    /\ cal_time' = now
    /\ drift_window' = DriftWindowFresh
    /\ UNCHANGED <<now, sensorVars, alt_offset, drift_tc, drift_init_period, altitude,
                   driftVars, calVars>>

\* get_altitude, the driver having taken a reading: a is what
\* get_altitude_difference makes of the pressure read
get_altitude(rd, a) ==
    /\ BaroCall("get_altitude")
    /\ healthy' = rd[1] /\ pressure' = rd[2] /\ temperature' = rd[3]
    /\ altitude' = IF ground_pressure = 0 THEN altitude ELSE a
    /\ UNCHANGED <<now, baroParamVars, cal_time, drift_window, driftVars, calVars>>

\* LowPassFilterFloat::set_time_constant: alpha = dt / (tc + dt)
LowPassSetTimeConstant(f, dt, tc) ==
    IF tc + dt = 0
    THEN [f EXCEPT !.alpha_finite = FALSE]
    ELSE [f EXCEPT !.alpha = Div(dt, tc + dt), !.alpha_finite = TRUE]

\* LowPassFilterFloat::apply: output += alpha * (sample - output)
LowPassApply(f, sample, sample_finite) ==
    [f EXCEPT !.output = f.output + Mul(f.alpha, sample - f.output),
              !.output_finite = f.alpha_finite /\ f.output_finite /\ sample_finite]

\* the init window of the drift estimator is open at the time t (ms)
DriftWindowOpen(t) == t < cal_time + drift_init_period * 1000

\* _drift_init_count++ on a uint16_t
NextInitCount(n) == (n + 1) % 65536

\* the estimate left in place when the estimator is disabled
DisabledDriftEstKept(est) == est

\* the estimate a disabled estimator reports
DisabledDriftEst(est) == 0

\* the else branch of update_drift_estimate: the members it leaves
DriftUpdate(alt, dt) ==
    LET averaging == drift_init_count > 0
        gnd == IF averaging
               THEN Div(drift_gnd_level, F(drift_init_count))
               ELSE drift_gnd_level
        f1 == IF averaging
              THEN LowPassApply(LowPassSetTimeConstant(drift_filter, dt, drift_tc),
                                0, TRUE)
              ELSE drift_filter
        est1 == IF averaging THEN f1.output ELSE drift_est
        est1_finite == IF averaging THEN f1.output_finite ELSE drift_est_finite
        innov == altitude + F(alt_offset) - est1 - (alt - gnd)
        accepted == est1_finite /\ innov < F(DRIFT_GATE)
        f2 == LowPassApply(LowPassSetTimeConstant(f1, dt, drift_tc),
                           innov + est1, est1_finite)
    IN  IF drift_tc < 0
        THEN [gnd |-> gnd, count |-> 0, filter |-> f1,
              est |-> DisabledDriftEst(est1), est_finite |-> TRUE]
        ELSE IF accepted
        THEN [gnd |-> gnd, count |-> 0, filter |-> f2,
              est |-> f2.output, est_finite |-> f2.output_finite]
        ELSE [gnd |-> gnd, count |-> 0, filter |-> f1,
              est |-> est1, est_finite |-> est1_finite]

\* update_drift_estimate
update_drift_estimate(alt, dt) ==
    /\ BaroCall("update_drift_estimate")
    /\ IF DriftWindowOpen(now)
       THEN /\ drift_gnd_level' = drift_gnd_level + alt
            /\ drift_init_count' = NextInitCount(drift_init_count)
            /\ drift_window' = [drift_window EXCEPT !.sum = @ + alt, !.calls = @ + 1]
            /\ UNCHANGED <<drift_est, drift_est_finite, drift_filter>>
       ELSE \E r \in {DriftUpdate(alt, dt)} :
                /\ drift_window' = [drift_window EXCEPT !.closed = TRUE]
                /\ drift_gnd_level' = r.gnd
                /\ drift_init_count' = r.count
                /\ drift_filter' = r.filter
                /\ drift_est' = r.est
                /\ drift_est_finite' = r.est_finite
    /\ UNCHANGED <<now, sensorVars, baroParamVars, altitude, cal_time, calVars>>

----------------------------------------------------------------------------
(* Specifications *)

\* waypoint navigation along straight segments
Next ==
    \/ \E ms \in Elapsed : PassTime(ms)
    \/ \E v \in SpeedArgs : set_horizontal_velocity(v)
    \/ \E l \in Launches : set_wp_origin_and_destination(l[1], l[2], l[3])
    \/ \E d \in Departures, sp \in StoppingPoints : set_wp_destination(d[1], sp, d[2])
    \/ \E sm \in Samples : update_wpnav(sm[1], sm[2])

Spec == Init /\ [][Next]_vars

\* waypoint navigation along straight and spline segments
NextNav ==
    \/ \E ms \in Elapsed : PassTime(ms)
    \/ \E v \in SpeedArgs : set_horizontal_velocity(v)
    \/ \E l \in NavLaunches : set_wp_origin_and_destination(l[1], l[2], l[3])
    \/ \E d \in NavDepartures, sp \in StoppingPoints : set_wp_destination(d[1], sp, d[2])
    \/ \E sm \in NavSamples : update_wpnav(sm[1], sm[2])
    \/ \E l \in SplineLegs : set_spline_origin_and_destination(l[1], l[2], l[3], l[4], l[5])
    \/ \E h \in SplineHops, sp \in StoppingPoints :
          set_spline_destination(h[1], sp, h[2], h[3], h[4])
    \/ \E pos \in SplinePositions : update_spline(pos)

SpecNav == Init /\ [][NextNav]_vars

\* the loiter controller
NextLoiter ==
    \/ \E ms \in Elapsed : PassTime(ms)
    \/ \E pos \in {PtA, PtB} : set_loiter_target(PtA, pos)
    \/ \E v \in LoiterVelocities : init_loiter_target(PtA, v)
    \/ \E v \in LoiterSpeedArgs : set_loiter_velocity(v)
    \/ \E st \in Sticks : set_pilot_desired_acceleration(st[1], st[2])
    \/ \E y \in Yaws : update_loiter(y[1], y[2])

SpecLoiter == Init /\ [][NextLoiter]_vars

\* loiter with the sticks centred: init_loiter_target as the first call, then
\* the scheduler runs update_loiter once per period
NextSettle ==
    \/ PassTime(LoiterPeriodMs)
    \/ \E v \in SettleVelocities : op = "boot" /\ init_loiter_target(PtA, v)
    \/ \E y \in Yaws : loiter_loop(y[1], y[2])

\* the fields the loiter controller never reads are held at one value
InitSettle ==
    /\ Init
    /\ ~reached_destination /\ ~fast_waypoint /\ segment_type = SEGMENT_STRAIGHT
    /\ wp_accel_cms = F(WPNAV_ACCELERATION) /\ pc_kP = F(1)

\* The scheduler keeps the clock and the loop going: weak fairness of both.
\* The loop's call is enabled exactly when op = "idle", and its fairness is
\* stated with that predicate in the place of ENABLED.
SpecSettle ==
    /\ InitSettle
    /\ [][NextSettle]_vars
    /\ WF_vars(PassTime(LoiterPeriodMs))
    /\ \/ []<><<\E y \in Yaws : loiter_loop(y[1], y[2])>>_vars
       \/ <>[](op # "idle")

\* one spline segment flown to its end: set_spline_origin_and_destination as
\* the first call, then the scheduler runs update_spline at its period
NextRun ==
    \/ \E l \in RunLegs :
          op = "boot" /\ set_spline_origin_and_destination(l[1], l[2], l[3], l[4], l[5])
    \/ \E ms \in RunPeriods : spline_loop(ms)

\* WP_SPEED and WP_ACCEL at their positive defaults
InitRun ==
    /\ Init
    /\ wp_accel_cms = F(WPNAV_ACCELERATION) /\ pc_kP = F(1)

\* The mission starts the segment and the scheduler keeps the loop going:
\* weak fairness of both.  The loop's call is enabled exactly when
\* op # "boot", and its fairness is stated with that predicate in the place
\* of ENABLED.
SpecRun ==
    /\ InitRun
    /\ [][NextRun]_vars
    /\ WF_vars(\E l \in RunLegs :
                  op = "boot" /\ set_spline_origin_and_destination(l[1], l[2], l[3], l[4], l[5]))
    /\ \/ []<><<\E ms \in RunPeriods : spline_loop(ms)>>_vars
       \/ <>[](op = "boot")

\* the navigator's fields, which no barometer call reads, held at one value
InitBaroOnly ==
    /\ InitWPNav
    /\ ~reached_destination /\ ~fast_waypoint /\ segment_type = SEGMENT_STRAIGHT
    /\ wp_accel_cms = F(WPNAV_ACCELERATION) /\ pc_kP = F(1)
    /\ BaroConstructed

\* the driver has not reported a healthy reading before the first call
InitBaro == InitBaroOnly /\ ~healthy

\* the barometer: calibration, altitude and the drift estimator
NextBaro ==
    \/ \E ms \in BaroElapsed : baro_delay(ms)
    \/ calibrate_begin
    \/ \E rd \in SteadyReadings : calibrate_phase1(SteadyReadMs, rd)
    \/ \E rd \in SteadyReadings : calibrate_phase2(SteadyReadMs, rd)
    \/ \E rd \in SteadyReadings : calibrate_phase3(SteadyReadMs, rd)
    \/ update_calibration
    \/ \E rd \in SteadyReadings, a \in BaroAltitudes : get_altitude(rd, a)
    \/ \E sm \in DriftSamples : update_drift_estimate(sm[1], sm[2])

SpecBaro == InitBaro /\ [][NextBaro]_vars

\* calibrate() alone: the members of the drift estimator held at one value
InitCalibrate ==
    /\ InitBaroOnly
    /\ drift_tc = F(1) /\ drift_init_period = 3
    /\ drift_est = 0 /\ drift_gnd_level = 0 /\ drift_init_count = 0

\* one step of a running calibrate()
calibrate_run ==
    \/ \E ms \in ReadMs, rd \in Readings : calibrate_phase1(ms, rd)
    \/ \E ms \in ReadMs, rd \in Readings : calibrate_phase2(ms, rd)
    \/ \E ms \in ReadMs, rd \in Readings : calibrate_phase3(ms, rd)

\* calibrate() as the first call after boot
NextCalibrate ==
    \/ op = "boot" /\ calibrate_begin
    \/ calibrate_run

\* calibrate() runs on the main thread and blocks it: once called it keeps
\* taking its steps, and each read() returns after a positive time
SpecCalibrate ==
    /\ InitCalibrate
    /\ [][NextCalibrate]_vars
    /\ WF_vars(calibrate_run)

\* the three update functions and the calls that start what they update
NextTick ==
    \/ \E ms \in TickElapsed : PassTime(ms)
    \/ \E l \in NavLaunches : set_wp_origin_and_destination(l[1], l[2], l[3])
    \/ \E l \in SplineLegs : set_spline_origin_and_destination(l[1], l[2], l[3], l[4], l[5])
    \/ \E sm \in NavSamples : update_wpnav(sm[1], sm[2])
    \/ \E pos \in SplinePositions : update_spline(pos)
    \/ init_loiter_target(PtA, VToB)
    \/ set_pilot_desired_acceleration(F(4500), 0)
    \/ update_loiter(F(1), 0)

SpecTick == Init /\ [][NextTick]_vars

\* segments that follow one another: straight and spline legs, then hops
NextChain ==
    \/ \E ms \in Elapsed : PassTime(ms)
    \/ \E l \in NavLaunches : set_wp_origin_and_destination(l[1], l[2], l[3])
    \/ \E sm \in NavSamples : update_wpnav(sm[1], sm[2])
    \/ \E l \in ChainLegs : set_spline_origin_and_destination(l[1], l[2], l[3], l[4], l[5])
    \/ \E h \in SplineHops, sp \in StoppingPoints :
          set_spline_destination(h[1], sp, h[2], h[3], h[4])
    \/ \E pos \in SplinePositions : update_spline(pos)

SpecChain == Init /\ [][NextChain]_vars

----------------------------------------------------------------------------
(* Properties *)

\* the 3-D distance of the inertial position pos to the waypoint dest is
\* within WP_RADIUS
WithinRadius(pos, dest) == VLength(VSub(pos, dest)) <= F(WPNAV_WP_RADIUS)

\* C1: on a straight segment every update_wpnav call leaves track_desired at
\* least what it was, and within [0, track_length].
C1_TrackDesiredMonotone ==
    [][ (op' = "update_wpnav" /\ segment_type = SEGMENT_STRAIGHT)
          => /\ track_desired' >= track_desired
             /\ 0 <= track_desired'
             /\ track_desired' <= track_length' ]_vars

\* a third call that is a tick moving the carrot further along a track it had
\* already entered, short of the end
C1_Witness ==
    /\ op = "update_wpnav" /\ advanced /\ segment_type = SEGMENT_STRAIGHT
    /\ origin_src = "argument"
    /\ track_desired > Mul(limited_speed_xy_cms, tick_dt)
    /\ tick_dt > 0 /\ limited_speed_xy_cms > 0
    /\ track_desired < track_length

\* C2: on a straight segment an advance tick entered with the flag clear sets
\* reached_destination exactly when track_desired has come to track_length
\* and the waypoint is fast or the vehicle is within WP_RADIUS of it.
C2_ReachedIff ==
    [][ (op' = "update_wpnav" /\ advanced' /\ segment_type = SEGMENT_STRAIGHT
         /\ ~reached_destination)
          => (reached_destination'
                <=> /\ track_desired' >= track_length
                    /\ (fast_waypoint \/ WithinRadius(curr_pos', destination))) ]_vars

\* a slow waypoint of a real track reached by a tick
C2_Witness ==
    /\ op = "update_wpnav" /\ advanced /\ segment_type = SEGMENT_STRAIGHT
    /\ origin_src # "none" /\ track_length > 0 /\ ~fast_waypoint
    /\ reached_destination /\ track_desired >= track_length

\* the spline time has come to 1
SplineTimeDone == spline_time_kind = "pinf" \/ (spline_time_kind = "fin" /\ spline_time >= F(1))

\* C3 as stated: on a segment that a set_* call created with fast_waypoint
\* false, reached_destination becomes true
\* only in a step that finds the vehicle within WP_RADIUS of the destination.
C3_ReachedOnlyInRadius ==
    [][ (~reached_destination /\ reached_destination' /\ ~fast_waypoint'
         /\ origin_src' # "none")
          => WithinRadius(curr_pos', destination') ]_vars

\* C3, amended: on a segment that a set_* call created with fast_waypoint
\* false, reached_destination becomes true
\* only in an update_wpnav tick that finds the vehicle within WP_RADIUS of the
\* destination, or in an update_spline tick of a spline segment that brings
\* the spline time to 1, wherever the vehicle is.
C3_ReachedInRadiusOrSplineDone ==
    [][ (~reached_destination /\ reached_destination' /\ ~fast_waypoint'
         /\ origin_src' # "none")
          => \/ op' = "update_wpnav" /\ advanced' /\ WithinRadius(curr_pos', destination')
             \/ op' = "update_spline" /\ advanced' /\ segment_type' = SEGMENT_SPLINE
                /\ SplineTimeDone' ]_vars

\* a slow waypoint of a segment that was set, reached by an update_wpnav tick
C3_Witness ==
    /\ reached_destination /\ ~fast_waypoint /\ origin_src # "none"
    /\ op = "update_wpnav" /\ advanced /\ segment_type = SEGMENT_STRAIGHT
    /\ WithinRadius(curr_pos, destination)

\* the four calls that start a segment
SetStraightOps == {"set_wp_destination", "set_wp_origin_and_destination"}

SetSplineOps == {"set_spline_destination", "set_spline_origin_and_destination"}

\* C4: when a call that starts a segment returns, reached_destination is
\* false and the position target is the segment's origin; after the straight
\* ones track_desired is 0, fast_waypoint is false and the type is STRAIGHT.
C4_SegmentStart ==
    /\ op \in SetStraightOps \cup SetSplineOps
          => ~reached_destination /\ pc_pos_target = origin
    /\ op \in SetStraightOps
          => track_desired = 0 /\ ~fast_waypoint /\ segment_type = SEGMENT_STRAIGHT

\* a segment started from the destination of a segment that had been reached
C4_Witness ==
    /\ op = "set_spline_destination" /\ origin_src = "destination"
    /\ wp_ever_updated /\ origin # VZero

\* the horizontal part u_xy of the track's unit vector
UnitXY == pythagorous2(pos_delta_unit[1], pos_delta_unit[2])

\* C5: on a straight segment, when set_wp_origin_and_destination returns and
\* after every advance tick, 0 <= limited_speed_xy_cms <= track_speed, and
\* track_speed <= WP_SPEED / u_xy whenever u_xy > 0.
C5_LimitedSpeedBounds ==
    (/\ segment_type = SEGMENT_STRAIGHT
     /\ \/ op = "set_wp_origin_and_destination"
        \/ op = "update_wpnav" /\ advanced /\ origin_src = "argument")
      => /\ 0 <= limited_speed_xy_cms
         /\ limited_speed_xy_cms <= track_speed
         /\ UnitXY > 0 => track_speed <= Div(wp_speed_cms, UnitXY)

\* C6: set_wp_destination takes the position target as the origin only if an
\* update tick has run, and ran less than 1 s ago; otherwise the origin is
\* the stopping point.
C6_OriginChoice ==
    op = "set_wp_destination"
      => /\ origin_src \in {"pos_target", "stopping_point"}
         /\ origin_src = "pos_target"
              <=> wp_ever_updated /\ now - wp_last_update < ACTIVE_MS

\* a zero-length straight segment set by a call
ZeroLengthSegment ==
    /\ segment_type = SEGMENT_STRAIGHT /\ origin_src # "none"
    /\ track_finite /\ origin = destination

\* C7: on a zero-length straight segment the unit vector is zero,
\* track_accel = track_speed = 0 and track_leash_length = LEASH_LENGTH_MIN;
\* track_desired stays 0 through every tick; and an advance tick sets
\* reached_destination exactly when the vehicle is within WP_RADIUS of the
\* destination (so the first such tick sets it).
C7_ZeroLengthSegment ==
    [][ ZeroLengthSegment'
          => /\ pos_delta_unit' = VZero
             /\ track_accel' = 0 /\ track_speed' = 0
             /\ track_leash_length' = F(WPNAV_LEASH_LENGTH_MIN)
             /\ track_desired' = 0
             /\ (op' = "update_wpnav" /\ advanced' /\ ZeroLengthSegment
                 /\ ~reached_destination)
                  => (reached_destination' <=> WithinRadius(curr_pos', destination')) ]_vars

\* a zero-length segment reached by a tick that finds the vehicle in the radius
C7_Witness ==
    /\ ZeroLengthSegment /\ op = "update_wpnav" /\ advanced
    /\ reached_destination /\ WithinRadius(curr_pos, destination) /\ track_desired = 0

\* the spline time after a step is below the spline time before it
SplineTimeDecreased ==
    \/ spline_time_kind = "fin" /\ spline_time_kind' = "fin" /\ spline_time' < spline_time
    \/ spline_time_kind \in {"fin", "pinf"} /\ spline_time_kind' = "ninf"

\* C8: on a spline segment that a set_* call created, no advance tick of
\* update_spline lowers the spline time, and the tick sets reached_destination
\* exactly when it brings the spline time to 1.
C8_SplineTimeMonotone ==
    [][ (op' = "update_spline" /\ advanced' /\ origin_src # "none")
          => /\ ~SplineTimeDecreased
             /\ reached_destination' <=> SplineTimeDone' ]_vars

\* the Hermite velocity P'(0) of the current spline segment
HermiteStartVel == SplineVelocity(hermite_spline_solution, 0)

\* a spline segment k+1 was just created behind a reached spline segment k
\* that was created with SEGMENT_END_SPLINE, the controller being active and
\* the vehicle not stopped at the start
SplineJoin ==
    /\ op \in SetSplineOps
    /\ spline_link.chained
    /\ spline_link.prev_end_type = SEGMENT_END_SPLINE

DesiredSpeed == pythagorous2(pc_desired_vel[1], pc_desired_vel[2])

\* C10 as stated: in every state of the loiter controller the magnitude of
\* the desired velocity is at most LOIT_SPEED.
C10_LoiterSpeedCap == DesiredSpeed <= loiter_speed_cms

\* C10, amended: after every accepted update_loiter tick the magnitude of the
\* desired velocity is at most LOIT_SPEED, to the last digit of the
\* arithmetic (the two components are rounded after the scaling).
C10_LoiterSpeedCapAfterTick ==
    (op = "update_loiter" /\ advanced) => DesiredSpeed <= loiter_speed_cms + 1

\* a tick that had to scale the velocity down to LOIT_SPEED
C10_Witness ==
    /\ op = "update_loiter" /\ advanced /\ tick_dt > 0
    /\ DesiredSpeed >= loiter_speed_cms
    /\ pc_desired_vel[1] # 0 /\ pc_desired_vel[2] # 0

\* C11: with the sticks centred and update_loiter ticking at its period, the
\* desired velocity becomes exactly (0, 0) after finitely many ticks and stays
\* (0, 0) from then on.
C11_LoiterSettles ==
    <>[](pc_desired_vel = <<0, 0>> /\ pilot_accel_fwd_cms = 0 /\ pilot_accel_rgt_cms = 0)

\* a tick of the loop that finds the velocity at rest, after a start from a
\* velocity that was not
C11_Witness ==
    /\ op = "update_loiter" /\ advanced /\ tick_dt > 0
    /\ calls = 1
    /\ pc_desired_vel = <<0, 0>>

CalibrateRunning == cal_pc \in {"phase1", "phase2", "phase3"}

\* where calibrate() has ended, and how
CalibrateOutcome ==
    /\ cal_timed_out => cal_pc = "panic"
    /\ cal_pc = "panic"
          => /\ cal_timed_out
             /\ now - cal_tstart > CAL_TIMEOUT_MS
             /\ ~cal_stored
    /\ cal_pc = "done"
          => /\ cal_stored
             /\ ~cal_timed_out
             /\ alt_offset = 0
             /\ ground_pressure = local_ground_pressure
             /\ ground_temperature = local_ground_temperature
             /\ cal_time = now

\* C13: a running calibrate() ends, either in the platform panic, called when
\* a read phase has spent more than 500 ms without the reading it waits for,
\* or complete, with ground_pressure, ground_temperature and cal_time stored
\* and alt_offset 0; once a phase has timed out none of the three is written.
C13_CalibrateEnds ==
    /\ []CalibrateOutcome
    /\ [][cal_timed_out' => /\ ground_pressure' = ground_pressure
                            /\ ground_temperature' = ground_temperature
                            /\ cal_time' = cal_time]_vars
    /\ CalibrateRunning ~> (cal_pc \in {"done", "panic"})

\* calibrate() ran into the timeout after some passes, with three reads in a
\* row that were not healthy: the stored ground pressure is the one from boot
C13_Witness ==
    /\ cal_pc = "panic" /\ cal_i > 0 /\ now - cal_tstart = 750
    /\ ground_pressure \in StoredGroundPressures \ {0} /\ cal_time = 0
    /\ alt_offset = 0 /\ local_ground_pressure \notin {0, ground_pressure}

\* C14: with drift_tc < 0, after an update_drift_estimate call made when the
\* init window is over, drift_est is 0 (and a number), whatever the external
\* altitude, the samples accumulated in the window and the innovation.
C14_DisabledDriftIsZero ==
    (op = "update_drift_estimate" /\ drift_tc < 0 /\ ~DriftWindowOpen(now))
        => drift_est = 0 /\ drift_est_finite

\* the first call after the window of a completed calibration, with samples
\* accumulated in the window and a filter whose alpha is dt / 0
C14_Witness ==
    /\ op = "update_drift_estimate" /\ drift_tc < 0 /\ ~DriftWindowOpen(now)
    /\ cal_pc = "done" /\ drift_init_period > 0
    /\ drift_gnd_level # 0 /\ drift_init_count = 0
    /\ ~drift_filter.alpha_finite /\ ~drift_filter.output_finite

\* C15: update_spline on a STRAIGHT segment changes nothing of the navigator
\* (track_desired, limited speed, flags, last-update time, position target),
\* and update_wpnav on a SPLINE segment changes neither the position target
\* nor reached_destination.
C15_AdvanceOwnSegmentOnly ==
    [][ /\ (op' = "update_spline" /\ segment_type = SEGMENT_STRAIGHT)
              => UNCHANGED <<track_desired, limited_speed_xy_cms, flagVars,
                             wp_last_update, pc_pos_target, pc_pos_target_finite,
                             splineVars>>
        /\ (op' = "update_wpnav" /\ segment_type = SEGMENT_SPLINE)
              => UNCHANGED <<pc_pos_target, reached_destination>> ]_vars

\* C16: after set_wp_origin_and_destination or
\* set_spline_origin_and_destination, whatever set_horizontal_velocity calls
\* came before, WP_ACCEL and WP_SPEED and the values the position controller
\* holds of them are strictly positive; and set_horizontal_velocity changes
\* WP_SPEED only to a speed of at least WP_SPEED_MIN.
C16_PositiveSpeedAndAccel ==
    [][ /\ op' \in {"set_wp_origin_and_destination", "set_spline_origin_and_destination"}
              => /\ wp_accel_cms' > 0 /\ pc_accel_xy' > 0
                 /\ wp_speed_cms' > 0 /\ pc_speed_xy' > 0
        /\ (op' = "set_horizontal_velocity" /\ wp_speed_cms' # wp_speed_cms)
              => wp_speed_cms' >= F(WPNAV_WP_SPEED_MIN) ]_vars

\* track_covered + max(track_extra_max, 0) as the tick that sampled curr_pos
\* computed it (origin, unit vector and leashes are not changed by a tick)
LeashBudget == advance_wp_target_along_track(curr_pos, VRest, 0).desired_max

\* C17: after every advance_wp_target_along_track tick track_desired is at
\* most track_covered + max(track_extra_max, 0), the leash budget of that
\* tick; so the carrot is at the destination only with the vehicle within
\* that envelope of the end of the track.
C17_CarrotWithinLeash ==
    (op = "update_wpnav" /\ advanced /\ track_finite) => track_desired <= LeashBudget

\* what a call within the update period must leave alone
TickState ==
    <<loiter_last_update, wp_last_update, pc_desired_vel, track_desired,
      limited_speed_xy_cms, spline_time, spline_time_kind, spline_vel_scaler,
      flagVars, pc_pos_target, pc_pos_target_finite>>

\* a call of an update function whose last accepted tick was at the time last:
\* within period ms only update_xy_controller runs, otherwise the tick is
\* taken at the time of the call and ends with trigger_xy
TickGate(last, last_after, period) ==
    IF now - last < period
    THEN pc_last_call' = "update_xy_controller" /\ ~advanced' /\ UNCHANGED TickState
    ELSE pc_last_call' = "trigger_xy" /\ last_after = now

\* C18 as stated: every call of update_loiter, update_wpnav and update_spline
\* less than one period (10 ms, 100 ms) after the last accepted tick runs only
\* update_xy_controller and changes nothing; a call at or after one period
\* takes the tick and calls trigger_xy, not update_xy_controller.
C18_TickGate ==
    [][ /\ op' = "update_loiter"
              => TickGate(loiter_last_update, loiter_last_update', 10)
        /\ op' = "update_wpnav" => TickGate(wp_last_update, wp_last_update', 100)
        /\ op' = "update_spline" => TickGate(wp_last_update, wp_last_update', 100)
      ]_vars

\* C18: the same, for update_spline only on a SPLINE segment; on any other
\* segment update_spline returns without calling the position controller.
C18_TickGateOwnSegment ==
    [][ /\ op' = "update_loiter"
              => TickGate(loiter_last_update, loiter_last_update', 10)
        /\ op' = "update_wpnav" => TickGate(wp_last_update, wp_last_update', 100)
        /\ (op' = "update_spline" /\ segment_type = SEGMENT_SPLINE)
              => TickGate(wp_last_update, wp_last_update', 100)
        /\ (op' = "update_spline" /\ segment_type # SEGMENT_SPLINE)
              => UNCHANGED <<TickState, pc_last_call>>
      ]_vars

\* a spline tick has been taken, and the call 50 ms later ran only the
\* position controller
C18_Witness ==
    /\ op = "update_spline" /\ segment_type = SEGMENT_SPLINE /\ ~advanced
    /\ pc_last_call = "update_xy_controller"
    /\ wp_ever_updated /\ now - wp_last_update = 50
    /\ spline_time > 0

\* a tick of update_wpnav or update_spline taken 1 s or more after the last
StaleWpTick ==
    /\ now - wp_last_update >= 1000
    /\ \/ op' = "update_wpnav"
       \/ op' = "update_spline" /\ segment_type = SEGMENT_SPLINE

\* a tick of update_loiter taken 1 s or more after the last
StaleLoiterTick == op' = "update_loiter" /\ now - loiter_last_update >= 1000

\* C19: a tick taken 1 s or more after the last accepted one runs with dt 0
\* and takes the time of the call as the last-update time; track_desired and
\* the spline time stay as they are, spline_vel_scaler does not grow, and the
\* loiter desired velocity changes only by the cap at LOIT_SPEED.
C19_StaleTickAdvancesNothing ==
    [][ /\ StaleWpTick
              => /\ tick_dt' = 0 /\ wp_last_update' = now
                 /\ track_desired' = track_desired
                 /\ spline_time' = spline_time /\ spline_time_kind' = spline_time_kind
                 /\ spline_vel_scaler' <= spline_vel_scaler
        /\ StaleLoiterTick
              => /\ tick_dt' = 0 /\ loiter_last_update' = now
                 /\ pc_desired_vel' = ConstrainLoiterVelocity(pc_desired_vel, loiter_speed_cms')
      ]_vars

\* the spline time a new segment may carry over: strictly between 1.0 and 1.1
SmallOvershoot == spline_time_kind = "fin" /\ spline_time > F(1) /\ 10 * spline_time < 11 * F(1)

\* C20: set_spline_origin_and_destination starts the new segment at the old
\* spline time minus 1 exactly when the previous segment is an active, reached
\* spline segment, the vehicle is not stopped at start and the old spline
\* time is strictly between 1.0 and 1.1, and at 0 otherwise: the new spline
\* time is at least 0 and below 0.1.
C20_SplineStartTime ==
    [][ op' \in {"set_spline_origin_and_destination", "set_spline_destination"}
          => /\ spline_link'.chained
                   => /\ reached_destination /\ now - wp_last_update < ACTIVE_MS
                      /\ segment_type = SEGMENT_SPLINE
             /\ spline_time_kind' = "fin"
             /\ spline_time' = IF spline_link'.chained /\ SmallOvershoot
                               THEN spline_time - F(1) ELSE 0
             /\ 0 <= spline_time' /\ 10 * spline_time' < F(1) ]_vars

\* a segment that started with a carried-over spline time
C20_Witness ==
    /\ op \in {"set_spline_origin_and_destination", "set_spline_destination"}
    /\ spline_link.chained /\ spline_time > 0
\* the call of update_drift_estimate that is the first one after the init
\* window of the most recent calibration, with calls made during the window
FirstCallAfterWindow ==
    /\ op' = "update_drift_estimate"
    /\ drift_window.calibrated /\ drift_window.calls > 0
    /\ ~drift_window.closed /\ drift_window'.closed

\* C21: at the first update_drift_estimate call after the init window of the
\* most recent calibration, drift_gnd_level becomes the arithmetic mean of the
\* altitudes handed in during that window, and the count it is divided by is
\* the number of calls made during the window.
C21_WindowMean ==
    [][ FirstCallAfterWindow
            => /\ drift_init_count = drift_window.calls
               /\ drift_gnd_level' = Div(drift_window.sum, F(drift_window.calls))
      ]_vars

\* the divisors calculate_wp_leash_length uses for a unit vector: none for
\* the zero vector, else |unit.xy|, |unit.z| or both
LeashDivisors(unit) ==
    LET pos_delta_unit_xy == pythagorous2(unit[1], unit[2])
        pos_delta_unit_z == Abs(unit[3])
    IN  IF pos_delta_unit_z = 0 /\ pos_delta_unit_xy = 0 THEN {}
        ELSE IF unit[3] = 0 THEN {pos_delta_unit_xy}
        ELSE IF pos_delta_unit_xy = 0 THEN {pos_delta_unit_z}
        ELSE {pos_delta_unit_z, pos_delta_unit_xy}

\* an advancing tick of update_wpnav evaluates _track_accel / kP
DividesByKP == op' = "update_wpnav" /\ advanced' /\ pc_kP >= 0

\* an advancing tick of update_spline at a finite spline time evaluates
\* _spline_vel_scaler / target_vel.length()
DividesBySplineVel == op' = "update_spline" /\ advanced' /\ spline_time_kind = "fin"

\* C22: no navigation tick divides by zero: kP is non-zero whenever
\* track_accel / kP is evaluated, every unit-vector divisor of
\* calculate_wp_leash_length is non-zero, and the length of the spline
\* velocity is non-zero whenever spline_vel_scaler / |v_s| is evaluated.
C22_NoDivisionByZero ==
    [][ /\ DividesByKP => pc_kP # 0
        /\ \A d \in LeashDivisors(pos_delta_unit') : d # 0
        /\ DividesBySplineVel
              => VLength(SplineVelocity(hermite_spline_solution, spline_time)) # 0
      ]_vars

\* C23: reached_destination is latched: a tick of update_wpnav or
\* update_spline leaves a set flag set, only the calls that start a segment
\* clear it, and on a spline segment a tick of update_spline with the flag
\* set changes neither the position target nor the spline time.
C23_ReachedLatched ==
    [][ /\ (reached_destination /\ op' \in {"update_wpnav", "update_spline"})
              => reached_destination'
        /\ (reached_destination /\ ~reached_destination')
              => op' \in SetStraightOps \cup SetSplineOps
        /\ (reached_destination /\ segment_type = SEGMENT_SPLINE /\ op' = "update_spline")
              => UNCHANGED <<pc_pos_target, pc_pos_target_finite,
                             spline_time, spline_time_kind>>
      ]_vars

\* a tick of update_spline accepted 1 s or more after the tick that took
\* the spline time to 1 and set the flag
C23_Witness ==
    /\ op = "update_spline" /\ segment_type = SEGMENT_SPLINE /\ reached_destination
    /\ ~advanced /\ wp_last_update = now /\ tick_dt = 0
    /\ spline_time_kind = "fin" /\ spline_time >= F(1)

\* C24: a spline segment set with WP_SPEED > 0 and WP_ACCEL > 0, of any end
\* type and geometry, whose update_spline ticks arrive at the nominal period,
\* eventually has reached_destination set.
C24_SplineEventuallyReached ==
    (op = "set_spline_origin_and_destination") ~> reached_destination

====
